---- MODULE Spec2Model ----
(***************************************************************************)
(* QuishThis - the composite threat analysis engine.                       *)
(*                                                                         *)
(* The URLAnalyzer facade (utils/urlAnalyzer.js): the strategy registry,   *)
(* the result cache, the fan-out of one analyze(url) call over the         *)
(* registered strategies, the aggregation of their outcomes into the       *)
(* composite report, the risk score and the safety band.                   *)
(*                                                                         *)
(* JavaScript runs one segment of code at a time, so every action below is *)
(* one synchronous segment: analyze from its entry to its await            *)
(* (Analyze_Start), the settling of one strategy promise (Settle), and     *)
(* analyze from the resumption of the await to its return                  *)
(* (Analyze_Finish).                                                       *)
(***************************************************************************)
EXTENDS Integers, Sequences, FiniteSets, TLC

(* ------------------------------ bounds --------------------------------- *)

\* The largest number of strategies the registry holds in the model.
MaxStrategies == 2

\* The clock stops here (Date.now() in units of 30 minutes).
MaxTime == 3

\* CACHE_CONFIG.MAX_SIZE is 100 in config.js; the model runs the same code
\* with a capacity small enough for the cache to fill up, and large enough
\* for a write to find room beside two entries.
MAX_SIZE == 3

\* The number of checks of the maps calculateRiskScore is applied to in
\* SpecScore.
NumChecks == 4

\* The most subscriptions the observer list holds.
MaxObservers == 2

\* The most history_cleared calls of observers.
MaxCleared == 2

\* The most checkUrlSafety calls of QRScanner that are followed.
MaxInFlight == 2

\* The most pending timers of resetScanner.
MaxTimers == 2

(* --------------------------- program constants ------------------------- *)

\* CACHE_CONFIG.TTL = 3600000 ms = 2 clock units of 30 minutes.
TTL == 2

\* CACHE_CONFIG.ENABLED
CACHE_ENABLED == TRUE

\* The names the strategy classes pass to super(), in the order the
\* documentation lists the classes.
StrategyNames ==
  << "safeBrowsing", "urlExpansion", "domainReputation", "ssl",
     "typosquatting", "phishingPattern" >>

\* The two analyze() calls that may be in flight at the same time.
Calls == {1, 2}

\* The URLs analysed.
URLs == {"u1", "u2", "u3"}

\* The URLs analysed while two calls overlap: one more than the cache holds.
OverlapURLs == {"u1", "u2", "u3", "u4"}

(* ------------------------------ values --------------------------------- *)

Undef == "undefined"
Null == "null"

\* JavaScript truthiness of a string-or-undefined value such as
\* error.message.
Truthy(s) == s \notin {Undef, Null, ""}

\* ageInDays: undefined, null or a number of days.
AgeUndef == [tag |-> Undef, days |-> 0]
AgeNull == [tag |-> Null, days |-> 0]
AgeOf(d) == [tag |-> "number", days |-> d]

\* The outcome object of one check, with the fields the facade reads; a
\* field the object does not carry is undefined (FALSE for the flags, which
\* the facade only tests for truthiness).
Blank ==
  [ error |-> Undef, strategy |-> Undef, isSafe |-> Undef, risk |-> Undef,
    suspicious |-> FALSE, warnings |-> FALSE, hasWarnings |-> FALSE,
    ageInDays |-> AgeUndef, isPhishing |-> FALSE, isTyposquat |-> FALSE,
    suspectedTarget |-> Undef, isShortened |-> Undef, expanded |-> Undef,
    validCert |-> Undef ]

\* Outcomes the strategy classes return.
OkLow == [Blank EXCEPT !.risk = "low"]
OkMedium == [Blank EXCEPT !.risk = "medium"]
OkHigh == [Blank EXCEPT !.risk = "high"]
\* SafeBrowsingStrategy without an API key.
NotConfigured == [Blank EXCEPT !.isSafe = Null, !.risk = "unknown"]
\* SafeBrowsingStrategy with matches.
Threat == [Blank EXCEPT !.isSafe = "false", !.risk = "high"]
\* URLExpansionStrategy after more than 3 redirects.
Flagged == [Blank EXCEPT !.suspicious = TRUE, !.risk = "medium"]
\* The object a strategy's own catch block returns.
CaughtFailure(msg) ==
  [Blank EXCEPT !.error = msg, !.isSafe = Null, !.risk = "unknown"]
\* PhishingPatternStrategy with score >= 40.
Phishing == [Blank EXCEPT !.isPhishing = TRUE, !.risk = "high"]
\* TyposquattingStrategy with a suspected target.
Typosquat ==
  [Blank EXCEPT !.isTyposquat = TRUE, !.suspectedTarget = "paypal.com",
                !.risk = "medium"]

\* Error messages of rejected strategy promises.
Messages == {"timeout", "analyze() must be implemented by subclass"}

\* A promise: pending, fulfilled with a value, or rejected with an error
\* whose message is reason.
Pending == [state |-> "pending", value |-> Blank, reason |-> Undef]
Resolved(v) == [state |-> "fulfilled", value |-> v, reason |-> Undef]
Rejected(msg) == [state |-> "rejected", value |-> Blank, reason |-> msg]

(* ------------------------------- state --------------------------------- *)

VARIABLES
  strategies,  \* this.strategies: the names of the registered strategies
  cache,       \* this.cache: the Map, as its entries in insertion order
  now,         \* Date.now()
  calls,       \* the analyze() calls: position, locals and returned report
  arg,         \* the argument of the pure function applied (SpecScore, SpecBand)
  ret,         \* its result
  config,      \* API_CONFIG: the API keys that are configured
  observers,   \* ReportingService.observers
  reportHistory, \* ReportingService.reportHistory
  reports,     \* the reportURL() calls: position and locals
  delivered,   \* the events the observers were called with, in order
  scanner      \* QRScanner: its state, its ref, its last render, its timers

\* The state of the ReportingService and of its callers.
reporting == << observers, reportHistory, reports, delivered >>

vars ==
  << strategies, cache, now, calls, arg, ret, config, reporting, scanner >>

\* API_CONFIG as config.js has it: every key is a placeholder.
NoKeys == {}

\* The callers of reportURL that may be in flight at the same time.
Reporters == {1, 2}

\* A reportURL slot before the call.
NoReport ==
  [ pc |-> "idle", args |-> << >>, report |-> << >>, subs |-> << >>,
    outcome |-> Undef ]

\* new ReportingService(), and nobody calling it yet.
ReportingInit ==
  /\ observers = << >>
  /\ reportHistory = << >>
  /\ reports = [r \in Reporters |-> NoReport]
  /\ delivered = << >>

\* What QRScanner shows: the SafetyResults component, or the camera with
\* or without its onBarcodeScanned handler and its Scan Again button.
View(results, onBarcodeScanned, scanAgain) ==
  [ results |-> results, onBarcodeScanned |-> onBarcodeScanned,
    scanAgain |-> scanAgain ]

\* QRScanner as mounted, with the camera permission granted: its state and
\* its ref are the initial ones, the camera is shown, no checkUrlSafety
\* call is in flight and no timer is pending.
ScannerInit ==
  scanner = [ scanned |-> FALSE, isChecking |-> FALSE,
              scannedData |-> Null, safetyResults |-> Null,
              isProcessingRef |-> FALSE,
              rendered |-> View(FALSE, TRUE, FALSE),
              checking |-> << >>, timers |-> 0 ]

(* --------------------------- pure functions ---------------------------- *)

\* btoa(url), or encodeURIComponent(url) for a URL btoa rejects: both are
\* injective and their ranges are disjoint (only the second writes '%').
generateCacheKey(url) == << "key", url >>

RECURSIVE SumOver(_, _)
SumOver(f, S) ==
  IF S = {} THEN 0
  ELSE LET x == CHOOSE y \in S : TRUE
       IN  f[x] + SumOver(f, S \ {x})

\* The amount one check adds to the score (the body of the forEach).
CheckScore(check) ==
  IF ~Truthy(check.error)
  THEN IF check.isSafe = "false" \/ check.risk = "high" THEN 30
       ELSE IF check.risk = "medium" \/ check.suspicious THEN 15
       ELSE IF check.risk = "low" \/ check.warnings THEN 5
       ELSE 0
  ELSE 0

Min(a, b) == IF a < b THEN a ELSE b

\* calculateRiskScore without the Math.min(100, score) of line 118.
calculateRiskScore_NoClamp(checks) ==
  SumOver([k \in DOMAIN checks |-> CheckScore(checks[k])], DOMAIN checks)

calculateRiskScore(checks) ==
  Min(100, SumOver([k \in DOMAIN checks |-> CheckScore(checks[k])],
                   DOMAIN checks))

\* determineOverallSafety with the results of lines 123 and 124 exchanged.
determineOverallSafety_Swapped(riskScore) ==
  IF riskScore >= 50 THEN "dangerous"
  ELSE IF riskScore >= 25 THEN "caution"
  ELSE IF riskScore >= 10 THEN "suspicious"
  ELSE "safe"

determineOverallSafety(riskScore) ==
  IF riskScore >= 50 THEN "dangerous"
  ELSE IF riskScore >= 25 THEN "suspicious"
  ELSE IF riskScore >= 10 THEN "caution"
  ELSE "safe"

\* x < 30 for x undefined (NaN < 30 is false), null (0 < 30) or a number.
LessThan30(age) ==
  CASE age.tag = Undef -> FALSE
    [] age.tag = Null -> TRUE
    [] OTHER -> age.days < 30

Has(checks, name) == name \in DOMAIN checks

\* The recommendations, in order; the last one, a template string, is
\* written as its text followed by the suspected target.

generateRecommendations(checks, riskScore) ==
  ( IF riskScore >= 50
    THEN << "Do not visit this URL", "Report this URL to authorities" >>
    ELSE IF riskScore >= 25
    THEN << "Exercise extreme caution", "Verify the sender/source" >>
    ELSE IF riskScore >= 10 THEN << "Be cautious when proceeding" >>
    ELSE << >> )
  \o ( IF Has(checks, "ssl") /\ checks["ssl"].hasWarnings
       THEN << "SSL certificate has warnings" >> ELSE << >> )
  \o ( IF Has(checks, "domainReputation")
          /\ LessThan30(checks["domainReputation"].ageInDays)
       THEN << "Domain is very new (< 30 days)" >> ELSE << >> )
  \o ( IF Has(checks, "phishingPattern") /\ checks["phishingPattern"].isPhishing
       THEN << "Confirmed phishing patterns detected" >> ELSE << >> )
  \o ( IF Has(checks, "typosquatting") /\ checks["typosquatting"].isTyposquat
       THEN << "Possible impersonation of",
               checks["typosquatting"].suspectedTarget >>
       ELSE << >> )

(* ------------------------- the analyze() call -------------------------- *)

\* The results object analyze creates (lines 39-46).
InitialResults(url) ==
  [ url |-> url, timestamp |-> now, checks |-> << >>,
    overallSafety |-> "unknown", riskScore |-> 0, recommendations |-> << >> ]

\* A call slot before analyze is entered.  (overtaken records that
\* clearCache has run since the call began.)
Idle ==
  [ pc |-> "idle", url |-> Undef, n |-> 0, promises |-> << >>,
    order |-> << >>, names |-> << >>, lookup |-> Undef,
    result |-> InitialResults(Undef), overtaken |-> FALSE ]

\* this.cache.has(cacheKey) and this.cache.get(cacheKey).
CacheHas(key) == \E i \in 1..Len(cache) : cache[i].key = key
CacheGet(key) == cache[CHOOSE i \in 1..Len(cache) : cache[i].key = key]

\* this.cache.delete(key) on the entries m.
CacheDelete(m, key) == SelectSeq(m, LAMBDA e : e.key # key)

\* CacheSet leaving the entry of a key that is present as it is.
CacheSet_KeepFirst(m, key, value) ==
  IF \E i \in 1..Len(m) : m[i].key = key
  THEN m
  ELSE Append(m, [key |-> key, value |-> value])

\* this.cache.set(key, value) on the entries m: a key already present keeps
\* its place in the insertion order, a new key goes last.
CacheSet(m, key, value) ==
  IF \E i \in 1..Len(m) : m[i].key = key
  THEN [i \in 1..Len(m) |->
          IF m[i].key = key THEN [key |-> key, value |-> value] ELSE m[i]]
  ELSE Append(m, [key |-> key, value |-> value])

\* IsLive with <= for the < of line 30.
IsLive_Inclusive(cached) == now - cached.timestamp <= TTL

\* Date.now() - cached.timestamp < CACHE_CONFIG.TTL
IsLive(cached) == now - cached.timestamp < TTL

\* Catch reading a property the error does not have (error.msg).
Catch_NoMessage(name, p) ==
  IF p.state = "rejected"
  THEN Resolved([Blank EXCEPT !.strategy = name])
  ELSE p

\* The promise strategy.analyze(url).catch(error => ({error: error.message,
\* strategy: strategy.name})) of a strategy named name whose analyze promise
\* is p.
Catch(name, p) ==
  IF p.state = "rejected"
  THEN Resolved([Blank EXCEPT !.error = p.reason, !.strategy = name])
  ELSE p

\* Promise.any / Promise.race in place of Promise.allSettled: the await
\* resumes at the first settlement.
AllSettled_First(promises) ==
  \/ DOMAIN promises = {}
  \/ \E i \in DOMAIN promises : promises[i].state # "pending"

\* await Promise.allSettled(strategyPromises) resumes once none is pending.
AllSettled(promises) ==
  \A i \in DOMAIN promises : promises[i].state # "pending"

\* strategyResults filled in the order of settling: the i-th element is
\* the i-th promise to settle.
StrategyResults_ByCompletion(c) ==
  [i \in 1..c.n |->
     IF i <= Len(c.order)
     THEN Catch(c.names[c.order[i]], c.promises[c.order[i]])
     ELSE Pending]

\* strategyResults: the i-th element belongs to the i-th promise handed to
\* Promise.allSettled, whatever the order of settling.
StrategyResults(c) ==
  [i \in 1..c.n |-> Catch(c.names[i], c.promises[i])]

\* Aggregate keeping the first strategy of a name, not the last.
Aggregate_FirstWins(results, names) ==
  [nm \in {names[i] : i \in DOMAIN results} |->
     LET first == CHOOSE i \in DOMAIN results :
                    /\ names[i] = nm
                    /\ \A j \in DOMAIN results : names[j] = nm => j >= i
         r == results[first]
     IN  IF r.state = "fulfilled" THEN r.value
         ELSE [Blank EXCEPT !.error =
                 IF Truthy(r.reason) THEN r.reason ELSE "Unknown error"]]

\* The forEach of lines 59-66 over results, for the strategies names: a
\* later index writes over an earlier one of the same name.
Aggregate(results, names) ==
  [nm \in {names[i] : i \in DOMAIN results} |->
     LET last == CHOOSE i \in DOMAIN results :
                   /\ names[i] = nm
                   /\ \A j \in DOMAIN results : names[j] = nm => j <= i
         r == results[last]
     IN  IF r.state = "fulfilled" THEN r.value
         ELSE [Blank EXCEPT !.error =
                 IF Truthy(r.reason) THEN r.reason ELSE "Unknown error"]]

\* Lines 68-71: results with the score, the band and the recommendations
\* of checks filled in.
Assess(results, checks) ==
  LET riskScore == calculateRiskScore(checks)
  IN  [results EXCEPT
         !.checks = checks,
         !.riskScore = riskScore,
         !.overallSafety = determineOverallSafety(riskScore),
         !.recommendations = generateRecommendations(checks, riskScore)]

\* CachePut without the eviction of lines 75-78.
CachePut_NoEvict(m, key, results) ==
  IF CACHE_ENABLED
  THEN CacheSet(m, key, [data |-> results, timestamp |-> now])
  ELSE m

\* Lines 73-86: the cache after analyze has stored results under key.
CachePut(m, key, results) ==
  IF CACHE_ENABLED
  THEN LET room == IF Len(m) >= MAX_SIZE THEN Tail(m) ELSE m
       IN  CacheSet(room, key, [data |-> results, timestamp |-> now])
  ELSE m

\* CacheAfterLookup deleting the entry it found, live or not.
CacheAfterLookup_AlwaysDelete(m, key, found) ==
  IF found # "absent" THEN CacheDelete(m, key) ELSE m

\* Lines 28-37: what the lookup of key finds, and the cache it leaves: an
\* expired entry is deleted.
CacheLookup(key) ==
  IF CACHE_ENABLED /\ CacheHas(key)
  THEN IF IsLive(CacheGet(key).value) THEN "live" ELSE "expired"
  ELSE "absent"

CacheAfterLookup(m, key, found) ==
  IF found = "expired" THEN CacheDelete(m, key) ELSE m

\* registerStrategy(strategy), for a strategy named name.
RegisterStrategy(name) ==
  /\ Len(strategies) < MaxStrategies
  /\ strategies' = Append(strategies, name)
  /\ UNCHANGED << cache, now, calls, arg, ret, config, reporting, scanner >>

\* analyze(url), lines 25-56: the cache lookup and, on a miss, the start of
\* every registered strategy.  The call records what the lookup found and
\* the strategies it started.
Analyze_Start(c, url) ==
  /\ calls[c].pc \in {"idle", "returned"}
  /\ LET key == generateCacheKey(url)
         found == CacheLookup(key)
     IN  /\ cache' = CacheAfterLookup(cache, key, found)
         /\ IF found = "live"
            THEN calls' = [calls EXCEPT ![c] =
                   [Idle EXCEPT !.pc = "returned", !.url = url,
                                !.lookup = found,
                                !.result = CacheGet(key).value.data]]
            ELSE calls' = [calls EXCEPT ![c] =
                   [Idle EXCEPT !.pc = "awaiting", !.url = url,
                                !.lookup = found,
                                !.n = Len(strategies),
                                !.names = strategies,
                                !.promises =
                                   [i \in 1..Len(strategies) |-> Pending],
                                !.result = InitialResults(url)]]
  /\ UNCHANGED << strategies, now, arg, ret, config, reporting, scanner >>

\* The analyze promise of the i-th strategy of call c settles as p.
Settle(c, i, p) ==
  /\ calls[c].pc = "awaiting"
  /\ i \in 1..calls[c].n
  /\ calls[c].promises[i].state = "pending"
  /\ calls' = [calls EXCEPT ![c].promises[i] = p,
                            ![c].order = Append(@, i)]
  /\ UNCHANGED << strategies, cache, now, arg, ret, config, reporting, scanner >>

\* analyze(url), lines 56-89: aggregation, scoring, the cache write and the
\* return.
Analyze_Finish(c) ==
  /\ calls[c].pc = "awaiting"
  /\ AllSettled(calls[c].promises)
  /\ LET checks == Aggregate(StrategyResults(calls[c]), calls[c].names)
         results == Assess(calls[c].result, checks)
     IN  /\ calls' = [calls EXCEPT ![c].pc = "returned",
                                   ![c].result = results]
         /\ cache' = CachePut(cache, generateCacheKey(calls[c].url), results)
  /\ UNCHANGED << strategies, now, arg, ret, config, reporting, scanner >>

\* clearCache()
ClearCache ==
  /\ cache # << >>
  /\ cache' = << >>
  /\ calls' = [c \in Calls |->
                 IF calls[c].pc = "awaiting"
                 THEN [calls[c] EXCEPT !.overtaken = TRUE]
                 ELSE calls[c]]
  /\ UNCHANGED << strategies, now, arg, ret, config, reporting, scanner >>

\* Time passes.
Tick ==
  /\ now < MaxTime
  /\ now' = now + 1
  /\ UNCHANGED << strategies, cache, calls, arg, ret, config, reporting, scanner >>

\* The state after new URLAnalyzer().
Init ==
  /\ strategies = << >>
  /\ cache = << >>
  /\ now = 0
  /\ calls = [c \in Calls |-> Idle]
  /\ arg = << >>
  /\ ret = << >>
  /\ config = NoKeys
  /\ ReportingInit
  /\ ScannerInit

\* The settlements of a strategy promise in Spec.
Settlements ==
  { Resolved(OkLow), Resolved(OkHigh), Resolved(NotConfigured),
    Resolved(CaughtFailure("Network Error")), Rejected("timeout") }

\* The registry is filled with one instance of each strategy class, in the
\* order the documentation lists them.
RegisterNext == RegisterStrategy(StrategyNames[Len(strategies) + 1])

\* One analyze call at a time on one URL, every strategy settling in any
\* order and in any of the ways of Settlements.
Next ==
  \/ RegisterNext
  \/ Analyze_Start(1, "u1")
  \/ \E i \in 1..MaxStrategies, p \in Settlements : Settle(1, i, p)
  \/ Analyze_Finish(1)
  \/ ClearCache

Spec == Init /\ [][Next]_vars

\* The settlements of a strategy promise in SpecCache.
CacheSettlements == { Resolved(OkLow), Rejected("timeout") }

\* Analyses of several URLs, one call at a time, while time passes: cache
\* entries are written, found live, found expired and cleared.
NextCache ==
  \/ \E url \in URLs : Analyze_Start(1, url)
  \/ \E p \in CacheSettlements : Settle(1, 1, p)
  \/ Analyze_Finish(1)
  \/ ClearCache
  \/ Tick

\* The analyzer with one strategy registered and nothing cached yet.
InitCache ==
  /\ strategies = << StrategyNames[1] >>
  /\ cache = << >>
  /\ now = 0
  /\ calls = [c \in Calls |-> Idle]
  /\ arg = << >>
  /\ ret = << >>
  /\ config = NoKeys
  /\ ReportingInit
  /\ ScannerInit

SpecCache == InitCache /\ [][NextCache]_vars

\* The settlements of a strategy promise in SpecFair.
FairSettlements == { Resolved(OkLow), Resolved(OkHigh), Rejected("timeout") }

NextFair ==
  \/ RegisterNext
  \/ Analyze_Start(1, "u1")
  \/ \E i \in 1..MaxStrategies, p \in FairSettlements : Settle(1, i, p)
  \/ Analyze_Finish(1)
  \/ ClearCache

\* The continuation of the await is a queued microtask: once every promise
\* has settled it runs.
SpecFair == Init /\ [][NextFair]_vars /\ WF_vars(Analyze_Finish(1))

\* Every strategy of the documented list registered, up to MaxStrategies.
InitOrder ==
  /\ strategies = [i \in 1..MaxStrategies |-> StrategyNames[i]]
  /\ cache = << >>
  /\ now = 0
  /\ calls = [c \in Calls |-> Idle]
  /\ arg = << >>
  /\ ret = << >>
  /\ config = NoKeys
  /\ ReportingInit
  /\ ScannerInit

\* The settlements of a strategy promise in SpecOrder.
OrderSettlements == { Resolved(OkHigh), Rejected("timeout") }

\* Two analyze calls in flight at the same time, on two URLs, whose
\* strategies settle in any order.
NextOrder ==
  \/ Analyze_Start(1, "u1")
  \/ Analyze_Start(2, "u2")
  \/ \E c \in Calls, i \in 1..MaxStrategies, p \in OrderSettlements :
       Settle(c, i, p)
  \/ \E c \in Calls : Analyze_Finish(c)

SpecOrder == InitOrder /\ [][NextOrder]_vars

\* The settlements of a strategy promise in SpecRegistry.
RegistrySettlements == { Resolved(OkLow), Resolved(OkHigh), Rejected("timeout") }

\* registerStrategy accepts any strategy: another instance of a class that
\* is registered already has the name of the first.
NextRegistry ==
  \/ \E i \in 1..MaxStrategies : RegisterStrategy(StrategyNames[i])
  \/ Analyze_Start(1, "u1")
  \/ \E i \in 1..MaxStrategies, p \in RegistrySettlements : Settle(1, i, p)
  \/ Analyze_Finish(1)
  \/ ClearCache

SpecRegistry == Init /\ [][NextRegistry]_vars

\* getCacheStats()
getCacheStats ==
  [ size |-> Len(cache), maxSize |-> MAX_SIZE, enabled |-> CACHE_ENABLED ]

\* The settlements of a strategy promise in SpecOverlap.
OverlapSettlements == { Resolved(OkLow), Resolved(OkHigh) }

\* Two analyze calls in flight at the same time: the first on any URL, the
\* second on the URL "u1", so that the two overlap on one URL or on two;
\* clearCache may run at any point.
NextOverlap ==
  \/ \E url \in OverlapURLs : Analyze_Start(1, url)
  \/ Analyze_Start(2, "u1")
  \/ \E c \in Calls, p \in OverlapSettlements : Settle(c, 1, p)
  \/ \E c \in Calls : Analyze_Finish(c)
  \/ ClearCache

SpecOverlap == InitCache /\ [][NextOverlap]_vars

\* Two analyze calls on the same URL, in flight at the same time or one
\* after the other, with every strategy of the documented list registered;
\* nothing removes the entry once it is written.
NextSame ==
  \/ \E c \in Calls : Analyze_Start(c, "u1")
  \/ \E c \in Calls, i \in 1..MaxStrategies, p \in OverlapSettlements :
       Settle(c, i, p)
  \/ \E c \in Calls : Analyze_Finish(c)

SpecSame == InitOrder /\ [][NextSame]_vars

\* The settlement of a strategy promise in SpecEvict.
EvictSettlements == { Resolved(OkLow) }

\* Two analyze calls in flight at the same time while time passes, the
\* first on any URL and the second on the URL "u1", and the cache never
\* cleared: entries are written, rewritten by the call that finishes second
\* and evicted.
NextEvict ==
  \/ \E url \in OverlapURLs : Analyze_Start(1, url)
  \/ Analyze_Start(2, "u1")
  \/ \E c \in Calls, p \in EvictSettlements : Settle(c, 1, p)
  \/ \E c \in Calls : Analyze_Finish(c)
  \/ Tick

SpecEvict == InitCache /\ [][NextEvict]_vars

(* ------------------- the scoring functions on their own ---------------- *)

\* SSLValidationStrategy when the probe fails: a medium risk that carries
\* the transport error.
CertError ==
  [Blank EXCEPT !.risk = "medium", !.error = "Network Error"]
\* A low risk with the warnings flag set.
LowWithWarnings == [Blank EXCEPT !.risk = "low", !.warnings = TRUE]

\* The outcomes of the checks maps scored in SpecScore.
ScoreOutcomes ==
  { OkLow, OkMedium, OkHigh, NotConfigured, Threat, Flagged, Phishing,
    Typosquat, LowWithWarnings, CertError, CaughtFailure("timeout"),
    [Blank EXCEPT !.error = "timeout", !.strategy = "ssl"] }

\* Any checks map of the first k strategies, k up to NumChecks.
InitScore ==
  /\ strategies = << >>
  /\ cache = << >>
  /\ now = 0
  /\ calls = [c \in Calls |-> Idle]
  /\ \E k \in 0..NumChecks :
        arg \in [{StrategyNames[i] : i \in 1..k} -> ScoreOutcomes]
  /\ ret = << >>
  /\ config = NoKeys
  /\ ReportingInit
  /\ ScannerInit

\* Lines 68-71 applied to the checks map arg.
ApplyScore ==
  /\ ret = << >>
  /\ ret' = << Assess(InitialResults("u1"), arg) >>
  /\ UNCHANGED << strategies, cache, now, calls, arg,
                  config, reporting, scanner >>

SpecScore == InitScore /\ [][ApplyScore]_vars

\* Any two scores.
InitBand ==
  /\ strategies = << >>
  /\ cache = << >>
  /\ now = 0
  /\ calls = [c \in Calls |-> Idle]
  /\ arg \in (0..100) \X (0..100)
  /\ ret = << >>
  /\ config = NoKeys
  /\ ReportingInit
  /\ ScannerInit

\* determineOverallSafety applied to both scores of arg.
ApplyBand ==
  /\ ret = << >>
  /\ ret' = << determineOverallSafety(arg[1]), determineOverallSafety(arg[2]) >>
  /\ UNCHANGED << strategies, cache, now, calls, arg,
                  config, reporting, scanner >>

SpecBand == InitBand /\ [][ApplyBand]_vars

(* ----------------------------- strings --------------------------------- *)

\* A JavaScript string is modelled by the sequence of its characters; the
\* string literals of the source and the URLs analysed are named by their
\* text, and Text gives the characters of each.
Text(s) ==
  CASE s = "https://www.google.com" ->
         << "h", "t", "t", "p", "s", ":", "/", "/", "w", "w", "w", ".", "g",
         "o", "o", "g", "l", "e", ".", "c", "o", "m" >>
    [] s = "not a url" ->
         << "n", "o", "t", " ", "a", " ", "u", "r", "l" >>
    [] s = "https://bit.ly/3xyz" ->
         << "h", "t", "t", "p", "s", ":", "/", "/", "b", "i", "t", ".", "l",
         "y", "/", "3", "x", "y", "z" >>
    [] s = "https://paypa1.com" ->
         << "h", "t", "t", "p", "s", ":", "/", "/", "p", "a", "y", "p", "a",
         "1", ".", "c", "o", "m" >>
    [] s = "http://example.com" ->
         << "h", "t", "t", "p", ":", "/", "/", "e", "x", "a", "m", "p", "l",
         "e", ".", "c", "o", "m" >>
    [] s = "://" ->
         << ":", "/", "/" >>
    [] s = "http" ->
         << "h", "t", "t", "p" >>
    [] s = "https" ->
         << "h", "t", "t", "p", "s" >>
    [] s = "www." ->
         << "w", "w", "w", "." >>
    [] s = "bit.ly" ->
         << "b", "i", "t", ".", "l", "y" >>
    [] s = "tinyurl.com" ->
         << "t", "i", "n", "y", "u", "r", "l", ".", "c", "o", "m" >>
    [] s = "goo.gl" ->
         << "g", "o", "o", ".", "g", "l" >>
    [] s = "ow.ly" ->
         << "o", "w", ".", "l", "y" >>
    [] s = "t.co" ->
         << "t", ".", "c", "o" >>
    [] s = "is.gd" ->
         << "i", "s", ".", "g", "d" >>
    [] s = "buff.ly" ->
         << "b", "u", "f", "f", ".", "l", "y" >>
    [] s = "adf.ly" ->
         << "a", "d", "f", ".", "l", "y" >>
    [] s = "bit.do" ->
         << "b", "i", "t", ".", "d", "o" >>
    [] s = "short.io" ->
         << "s", "h", "o", "r", "t", ".", "i", "o" >>
    [] s = "rebrand.ly" ->
         << "r", "e", "b", "r", "a", "n", "d", ".", "l", "y" >>
    [] s = "cutt.ly" ->
         << "c", "u", "t", "t", ".", "l", "y" >>
    [] s = "tiny.cc" ->
         << "t", "i", "n", "y", ".", "c", "c" >>
    [] s = "shorturl.at" ->
         << "s", "h", "o", "r", "t", "u", "r", "l", ".", "a", "t" >>
    [] s = "rb.gy" ->
         << "r", "b", ".", "g", "y" >>
    [] s = "shorturl.com" ->
         << "s", "h", "o", "r", "t", "u", "r", "l", ".", "c", "o", "m" >>
    [] s = "t2m.io" ->
         << "t", "2", "m", ".", "i", "o" >>
    [] s = "google.com" ->
         << "g", "o", "o", "g", "l", "e", ".", "c", "o", "m" >>
    [] s = "microsoft.com" ->
         << "m", "i", "c", "r", "o", "s", "o", "f", "t", ".", "c", "o",
         "m" >>
    [] s = "apple.com" ->
         << "a", "p", "p", "l", "e", ".", "c", "o", "m" >>
    [] s = "amazon.com" ->
         << "a", "m", "a", "z", "o", "n", ".", "c", "o", "m" >>
    [] s = "github.com" ->
         << "g", "i", "t", "h", "u", "b", ".", "c", "o", "m" >>
    [] s = "youtube.com" ->
         << "y", "o", "u", "t", "u", "b", "e", ".", "c", "o", "m" >>
    [] s = "facebook.com" ->
         << "f", "a", "c", "e", "b", "o", "o", "k", ".", "c", "o", "m" >>
    [] s = "twitter.com" ->
         << "t", "w", "i", "t", "t", "e", "r", ".", "c", "o", "m" >>
    [] s = "linkedin.com" ->
         << "l", "i", "n", "k", "e", "d", "i", "n", ".", "c", "o", "m" >>
    [] s = "instagram.com" ->
         << "i", "n", "s", "t", "a", "g", "r", "a", "m", ".", "c", "o",
         "m" >>
    [] s = ".xyz" ->
         << ".", "x", "y", "z" >>
    [] s = ".top" ->
         << ".", "t", "o", "p" >>
    [] s = ".club" ->
         << ".", "c", "l", "u", "b" >>
    [] s = ".online" ->
         << ".", "o", "n", "l", "i", "n", "e" >>
    [] s = ".info" ->
         << ".", "i", "n", "f", "o" >>
    [] s = ".work" ->
         << ".", "w", "o", "r", "k" >>
    [] s = ".click" ->
         << ".", "c", "l", "i", "c", "k" >>
    [] s = "paypal.com" ->
         << "p", "a", "y", "p", "a", "l", ".", "c", "o", "m" >>
    [] s = "netflix.com" ->
         << "n", "e", "t", "f", "l", "i", "x", ".", "c", "o", "m" >>
    [] s = "ebay.com" ->
         << "e", "b", "a", "y", ".", "c", "o", "m" >>
    [] s = "walmart.com" ->
         << "w", "a", "l", "m", "a", "r", "t", ".", "c", "o", "m" >>
    [] s = "bankofamerica.com" ->
         << "b", "a", "n", "k", "o", "f", "a", "m", "e", "r", "i", "c", "a",
         ".", "c", "o", "m" >>
    [] s = "chase.com" ->
         << "c", "h", "a", "s", "e", ".", "c", "o", "m" >>
    [] s = "wellsfargo.com" ->
         << "w", "e", "l", "l", "s", "f", "a", "r", "g", "o", ".", "c", "o",
         "m" >>
    [] s = "citibank.com" ->
         << "c", "i", "t", "i", "b", "a", "n", "k", ".", "c", "o", "m" >>
    [] s = "verify" ->
         << "v", "e", "r", "i", "f", "y" >>
    [] s = "account" ->
         << "a", "c", "c", "o", "u", "n", "t" >>
    [] s = "suspend" ->
         << "s", "u", "s", "p", "e", "n", "d" >>
    [] s = "confirm" ->
         << "c", "o", "n", "f", "i", "r", "m" >>
    [] s = "login" ->
         << "l", "o", "g", "i", "n" >>
    [] s = "signin" ->
         << "s", "i", "g", "n", "i", "n" >>
    [] s = "banking" ->
         << "b", "a", "n", "k", "i", "n", "g" >>
    [] s = "secure" ->
         << "s", "e", "c", "u", "r", "e" >>
    [] s = "update" ->
         << "u", "p", "d", "a", "t", "e" >>
    [] s = "password" ->
         << "p", "a", "s", "s", "w", "o", "r", "d" >>
    [] s = "credential" ->
         << "c", "r", "e", "d", "e", "n", "t", "i", "a", "l" >>
    [] s = "validate" ->
         << "v", "a", "l", "i", "d", "a", "t", "e" >>
    [] s = "restore" ->
         << "r", "e", "s", "t", "o", "r", "e" >>
    [] s = "limited" ->
         << "l", "i", "m", "i", "t", "e", "d" >>
    [] s = "urgent" ->
         << "u", "r", "g", "e", "n", "t" >>
    [] s = "action-required" ->
         << "a", "c", "t", "i", "o", "n", "-", "r", "e", "q", "u", "i", "r",
         "e", "d" >>
    [] s = ".tk" ->
         << ".", "t", "k" >>
    [] s = ".ml" ->
         << ".", "m", "l" >>
    [] s = ".ga" ->
         << ".", "g", "a" >>
    [] s = ".cf" ->
         << ".", "c", "f" >>
    [] s = ".gq" ->
         << ".", "g", "q" >>
    [] s = "" ->
         << >>
    [] s = "http://example.com/a,b" ->
         << "h", "t", "t", "p", ":", "/", "/", "e", "x", "a", "m", "p", "l",
         "e", ".", "c", "o", "m", "/", "a", ",", "b" >>
    [] s = "fake login page" ->
         << "f", "a", "k", "e", " ", "l", "o", "g", "i", "n", " ", "p", "a",
         "g", "e" >>
    [] s = "seen in a mail, twice" ->
         << "s", "e", "e", "n", " ", "i", "n", " ", "a", " ", "m", "a", "i",
         "l", ",", " ", "t", "w", "i", "c", "e" >>
    [] s = "phishing" ->
         << "p", "h", "i", "s", "h", "i", "n", "g" >>
    [] s = "malware" ->
         << "m", "a", "l", "w", "a", "r", "e" >>
    [] s = "pending" ->
         << "p", "e", "n", "d", "i", "n", "g" >>
    [] s = "completed" ->
         << "c", "o", "m", "p", "l", "e", "t", "e", "d" >>
    [] s = "Report ID" ->
         << "R", "e", "p", "o", "r", "t", " ", "I", "D" >>
    [] s = "URL" ->
         << "U", "R", "L" >>
    [] s = "Category" ->
         << "C", "a", "t", "e", "g", "o", "r", "y" >>
    [] s = "Timestamp" ->
         << "T", "i", "m", "e", "s", "t", "a", "m", "p" >>
    [] s = "Status" ->
         << "S", "t", "a", "t", "u", "s" >>
    [] s = "Description" ->
         << "D", "e", "s", "c", "r", "i", "p", "t", "i", "o", "n" >>
    [] s = "k3x9q2m1z" ->
         << "k", "3", "x", "9", "q", "2", "m", "1", "z" >>
    [] s = "0b7d5f8aa" ->
         << "0", "b", "7", "d", "5", "f", "8", "a", "a" >>
    [] s = "report_" ->
         << "r", "e", "p", "o", "r", "t", "_" >>
    [] s = "1970-01-01T" ->
         << "1", "9", "7", "0", "-", "0", "1", "-", "0", "1", "T" >>
    [] s = ":00.000Z" ->
         << ":", "0", "0", ".", "0", "0", "0", "Z" >>
    [] s = "https://accounts.google.com" ->
         << "h", "t", "t", "p", "s", ":", "/", "/", "a", "c", "c", "o", "u",
         "n", "t", "s", ".", "g", "o", "o", "g", "l", "e", ".", "c", "o",
         "m" >>
    [] s = "https://www.microsoft.com" ->
         << "h", "t", "t", "p", "s", ":", "/", "/", "w", "w", "w", ".", "m",
         "i", "c", "r", "o", "s", "o", "f", "t", ".", "c", "o", "m" >>
    [] s = "https://www.reddit.com" ->
         << "h", "t", "t", "p", "s", ":", "/", "/", "w", "w", "w", ".", "r",
         "e", "d", "d", "i", "t", ".", "c", "o", "m" >>
    [] s = "gmail.com" ->
         << "g", "m", "a", "i", "l", ".", "c", "o", "m" >>
    [] s = "yahoo.com" ->
         << "y", "a", "h", "o", "o", ".", "c", "o", "m" >>
    [] s = "reddit.com" ->
         << "r", "e", "d", "d", "i", "t", ".", "c", "o", "m" >>
    [] s = "spotify.com" ->
         << "s", "p", "o", "t", "i", "f", "y", ".", "c", "o", "m" >>
    [] s = "dropbox.com" ->
         << "d", "r", "o", "p", "b", "o", "x", ".", "c", "o", "m" >>
    [] s = "slack.com" ->
         << "s", "l", "a", "c", "k", ".", "c", "o", "m" >>
    [] s = "zoom.us" ->
         << "z", "o", "o", "m", ".", "u", "s" >>
    [] s = "https://paypa1.com/login" ->
         << "h", "t", "t", "p", "s", ":", "/", "/", "p", "a", "y", "p", "a",
         "1", ".", "c", "o", "m", "/", "l", "o", "g", "i", "n" >>
    [] s = "http://" ->
         << "h", "t", "t", "p", ":", "/", "/" >>
    [] s = "https://" ->
         << "h", "t", "t", "p", "s", ":", "/", "/" >>

\* t occurs in s at position i.
StartsAt(s, t, i) ==
  /\ i >= 1
  /\ i + Len(t) - 1 <= Len(s)
  /\ \A k \in 1..Len(t) : s[i + k - 1] = t[k]

\* s.indexOf(t), counting positions from 1, and 0 when t does not occur.
IndexOf(s, t) ==
  LET at == {i \in 1..Len(s) : StartsAt(s, t, i)}
  IN  IF at = {} THEN 0 ELSE CHOOSE i \in at : \A j \in at : i <= j

\* s.includes(t), s.startsWith(t) and s.endsWith(t)
includes(s, t) == IndexOf(s, t) # 0
startsWith(s, t) == StartsAt(s, t, 1)
endsWith(s, t) == StartsAt(s, t, Len(s) - Len(t) + 1)

\* s.replace(t, r) for a string pattern t: the first occurrence only.
replace(s, t, r) ==
  LET i == IndexOf(s, t)
  IN  IF i = 0 THEN s
      ELSE SubSeq(s, 1, i - 1) \o r \o SubSeq(s, i + Len(t), Len(s))

UpperCase ==
  << "A", "B", "C", "D", "E", "F", "G", "H", "I", "J", "K", "L", "M",
     "N", "O", "P", "Q", "R", "S", "T", "U", "V", "W", "X", "Y", "Z" >>
LowerCase ==
  << "a", "b", "c", "d", "e", "f", "g", "h", "i", "j", "k", "l", "m",
     "n", "o", "p", "q", "r", "s", "t", "u", "v", "w", "x", "y", "z" >>

\* s.toLowerCase()
toLowerCase(s) ==
  [i \in 1..Len(s) |->
     IF \E k \in 1..26 : UpperCase[k] = s[i]
     THEN LowerCase[CHOOSE k \in 1..26 : UpperCase[k] = s[i]]
     ELSE s[i]]

\* The positions of the character ch in s, and (s.match(/ch/g) || []).length.
Positions(s, ch) == {i \in 1..Len(s) : s[i] = ch}
Count(s, ch) == Cardinality(Positions(s, ch))

\* s.split('.').length
Labels(s) == Count(s, ".") + 1

IsDigit(ch) == ch \in {"0", "1", "2", "3", "4", "5", "6", "7", "8", "9"}

\* /\d{1,3}\.\d{1,3}\.\d{1,3}\.\d{1,3}/.test(s): three dots with one to
\* three digits between neighbours, a digit before the first and a digit
\* after the last.
HasIPv4(s) ==
  \E p1, p2, p3 \in Positions(s, ".") :
    /\ p1 < p2 /\ p2 < p3
    /\ p2 - p1 \in 2..4 /\ p3 - p2 \in 2..4
    /\ \A i \in (p1 + 1)..(p2 - 1) : IsDigit(s[i])
    /\ \A i \in (p2 + 1)..(p3 - 1) : IsDigit(s[i])
    /\ p1 > 1 /\ IsDigit(s[p1 - 1])
    /\ p3 < Len(s) /\ IsDigit(s[p3 + 1])

\* new URL(url) for the URLs of the form scheme://host/path analysed here:
\* ok is FALSE where the constructor throws, and the host is lower-cased.
ParseURL(url) ==
  LET s == Text(url)
      i == IndexOf(s, Text("://"))
      scheme == SubSeq(s, 1, i - 1)
      rest == SubSeq(s, i + 3, Len(s))
      slash == IndexOf(rest, << "/" >>)
      host == IF slash = 0 THEN rest ELSE SubSeq(rest, 1, slash - 1)
      path == IF slash = 0 THEN << "/" >> ELSE SubSeq(rest, slash, Len(rest))
  IN  [ ok |-> /\ i # 0
               /\ scheme \in {Text("http"), Text("https")}
               /\ host # << >>
               /\ ~includes(s, << " " >>),
        protocol |-> scheme \o << ":" >>,
        hostname |-> toLowerCase(host),
        pathname |-> path,
        href |-> scheme \o Text("://") \o toLowerCase(host) \o path ]

\* The least of a non-empty set of numbers.
Least(S) == CHOOSE a \in S : \A b \in S : a <= b

\* One row of the matrix of levenshteinDistance: the row i, of the character
\* ch of str2, from the row prev above it (a sequence holds column j at
\* position j + 1).  The code fills the row from left to right, a cell being
\* the cell up and to the left when the characters agree and otherwise one
\* more than the least of the cells to the left, up-left and up; the cell
\* to the left is unfolded here: a cell is the least, over the columns k
\* up to its own, of what column k gets from the row above plus the
\* distance to k (in this matrix a cell is never more than one above the one to
\* its left or the one up and to its left).
NextRow(str1, ch, prev, i) ==
  LET n == Len(str1)
      above == SubSeq([k \in 1..(n + 1) |->
                 IF k = 1 THEN i
                 ELSE IF ch = str1[k - 1] THEN prev[k - 1]
                 ELSE Min(prev[k - 1] + 1, prev[k] + 1)], 1, n + 1)
  IN  SubSeq([j \in 1..(n + 1) |->
                Least({above[k] + (j - k) : k \in 1..j})], 1, n + 1)

\* The rows of the matrix, one per character of str2, each computed from
\* the row before it; every row has str1.length + 1 cells.
RECURSIVE FillRows(_, _, _, _)
FillRows(str1, str2, prev, i) ==
  IF i > Len(str2) THEN prev
  ELSE LET next == NextRow(str1, str2[i], prev, i)
       IN  IF Len(next) = Len(prev)
           THEN FillRows(str1, str2, next, i + 1)
           ELSE << >>

\* TyposquattingStrategy.levenshteinDistance
levenshteinDistance(str1, str2) ==
  LET first == SubSeq([j \in 1..(Len(str1) + 1) |-> j - 1], 1, Len(str1) + 1)
  IN  FillRows(str1, str2, first, 1)[Len(str1) + 1]

Max(a, b) == IF a > b THEN a ELSE b

\* TyposquattingStrategy.isSimilar: similarity = 1 - distance / maxLength
\* is above 0.7 and below 1.0.
isSimilar(domain1, domain2) ==
  LET distance == levenshteinDistance(domain1, domain2)
      maxLength == Max(Len(domain1), Len(domain2))
  IN  /\ 10 * (maxLength - distance) > 7 * maxLength
      /\ distance > 0

(* ------------------------- the strategy classes ------------------------ *)

\* What the network answers is not the program's choice: every strategy is
\* the set of the outcomes its analyze(url) can be fulfilled with, one for
\* each answer of the network.  (Each class catches its own exceptions, so
\* its promise is never rejected.)

\* The outcome of a strategy's catch block for new URL(url) throwing.
InvalidURL == "Invalid URL"
\* The message of a failed request.
NetworkError == "Network Error"

\* The keys of API_CONFIG that may be configured.
ApiKeys == {"safeBrowsing", "whois", "virusTotal"}

\* SafeBrowsingStrategy.analyze
SafeBrowsingStrategy(url) ==
  IF "safeBrowsing" \notin config
  THEN { NotConfigured }
  ELSE { [Blank EXCEPT !.isSafe = "true", !.risk = "low"],
         Threat,
         CaughtFailure(NetworkError) }

\* URLExpansionStrategy.shorteners
shorteners ==
  << "bit.ly", "tinyurl.com", "goo.gl", "ow.ly", "t.co", "is.gd", "buff.ly",
     "adf.ly", "bit.do", "short.io", "rebrand.ly", "cutt.ly", "tiny.cc",
     "shorturl.at", "rb.gy", "shorturl.com", "t2m.io" >>

\* this.shorteners.some(shortener => hostname.toLowerCase().includes(...))
IsShortened(hostname) ==
  \E k \in DOMAIN shorteners :
    includes(toLowerCase(hostname), toLowerCase(Text(shorteners[k])))

\* Where the shortened URLs of the model lead.
RedirectsOf(url) ==
  IF url = "https://bit.ly/3xyz" THEN { "https://paypa1.com" } ELSE {}

\* The answers to axios.get(url): the URL the redirects ended at (none when
\* the response does not carry it) and the number of redirects followed.
GetResponses(url) ==
  { [responseURL |-> t, redirectCount |-> n] :
      t \in RedirectsOf(url) \cup {Undef}, n \in {0, 1, 4} }

\* URLExpansionStrategy.analyze
URLExpansionStrategy(url) ==
  LET urlObj == ParseURL(url)
      Expanded(response) ==
        LET expandedUrl == IF response.responseURL # Undef
                           THEN response.responseURL ELSE url
            suspicious == expandedUrl # url /\ response.redirectCount > 3
        IN  [Blank EXCEPT !.isShortened = "true",
                          !.expanded = expandedUrl,
                          !.suspicious = suspicious,
                          !.risk = IF suspicious THEN "medium" ELSE "low"]
  IN  IF ~urlObj.ok
      THEN { [Blank EXCEPT !.error = InvalidURL, !.isShortened = Null,
                           !.risk = "unknown"] }
      ELSE IF ~IsShortened(urlObj.hostname)
      THEN { [Blank EXCEPT !.isShortened = "false", !.expanded = url,
                           !.risk = "low"] }
      ELSE { Expanded(response) : response \in GetResponses(url) }
           \cup { [Blank EXCEPT !.error = NetworkError, !.isShortened = Null,
                                !.risk = "unknown"] }

\* DomainReputationStrategy.extractRootDomain: the last two labels.
extractRootDomain(domain) ==
  IF Labels(domain) > 2
  THEN LET dots == Positions(domain, ".")
           last == CHOOSE i \in dots : \A j \in dots : j <= i
           before == CHOOSE i \in dots \ {last} :
                       \A j \in dots \ {last} : j <= i
       IN  SubSeq(domain, before + 1, Len(domain))
  ELSE domain

trustedDomains ==
  << "google.com", "microsoft.com", "apple.com", "amazon.com", "github.com",
     "youtube.com", "facebook.com", "twitter.com", "linkedin.com",
     "instagram.com" >>

suspiciousTlds ==
  << ".xyz", ".top", ".club", ".online", ".info", ".work", ".click" >>

\* DomainReputationStrategy.performHeuristicChecks: the score and the risk.
performHeuristicChecks(domain) ==
  IF \E k \in DOMAIN trustedDomains :
       Text(trustedDomains[k]) = extractRootDomain(domain)
  THEN [score |-> 90, risk |-> "low"]
  ELSE LET score ==
             50
             - ( IF \E k \in DOMAIN suspiciousTlds :
                      endsWith(domain, Text(suspiciousTlds[k]))
                 THEN 20 ELSE 0 )
             - ( IF Len(domain) > 40 THEN 10 ELSE 0 )
             - ( IF Labels(domain) - 2 > 2 THEN 15 ELSE 0 )
       IN  [ score |-> score,
             risk |-> IF score >= 60 THEN "low"
                      ELSE IF score >= 40 THEN "medium" ELSE "high" ]

\* The answers to the WHOIS request of fetchWhoisData: the request fails,
\* the answer has no WhoisRecord, or it has one, whose createdDate gives the
\* age calculateDomainAge computes (null without a createdDate).
WhoisFailed == [tag |-> "failed", days |-> 0]
WhoisAnswers == { WhoisFailed, AgeNull, AgeOf(10), AgeOf(400) }

\* fetchWhoisData, line 251: ageInDays < 30 ? 'high' : ageInDays < 365 ?
\* 'medium' : 'low', where null < 30 holds.
AgeRisk(ageInDays) ==
  IF LessThan30(ageInDays) THEN "high"
  ELSE IF ageInDays.days < 365 THEN "medium"
  ELSE "low"

\* DomainReputationStrategy.fetchWhoisData, for an answer that has a record.
fetchWhoisData(answer) ==
  [Blank EXCEPT !.ageInDays = answer, !.risk = AgeRisk(answer)]

\* { ...whoisData, ...heuristicScore }: the fields heuristicScore has (risk
\* among those modelled) are written over those of whoisData.
SpreadOver(whoisData, heuristicScore) ==
  [whoisData EXCEPT !.risk = heuristicScore.risk]

\* DomainReputationStrategy.analyze
DomainReputationStrategy(url) ==
  LET urlObj == ParseURL(url)
      heuristicScore ==
        [Blank EXCEPT !.risk = performHeuristicChecks(urlObj.hostname).risk]
  IN  IF ~urlObj.ok
      THEN { [Blank EXCEPT !.error = InvalidURL, !.risk = "unknown"] }
      ELSE IF "whois" \in config
      THEN { IF whois = WhoisFailed
             THEN heuristicScore
             ELSE SpreadOver(fetchWhoisData(whois), heuristicScore) :
               whois \in WhoisAnswers }
      ELSE { heuristicScore }

\* The status of the answer to axios.head(url).
HeadStatuses == {200, 404}

\* SSLValidationStrategy.analyze
SSLValidationStrategy(url) ==
  LET urlObj == ParseURL(url)
  IN  IF ~urlObj.ok
      THEN { [Blank EXCEPT !.error = InvalidURL, !.risk = "unknown"] }
      ELSE IF urlObj.protocol # Text("https") \o << ":" >>
      THEN { [Blank EXCEPT !.risk = "high"] }
      ELSE { [Blank EXCEPT
                !.validCert = IF status < 400 THEN "true" ELSE "false",
                !.risk = IF status < 400 THEN "low" ELSE "medium"] :
               status \in HeadStatuses }
           \cup { [CertError EXCEPT !.validCert = "false"] }

legitimateDomains ==
  << "google.com", "facebook.com", "amazon.com", "microsoft.com",
     "apple.com", "paypal.com", "netflix.com", "instagram.com",
     "twitter.com", "linkedin.com", "ebay.com", "walmart.com",
     "bankofamerica.com", "chase.com", "wellsfargo.com", "citibank.com" >>

\* TyposquattingStrategy.findSuspectedTarget: the loop over the legitimate
\* domains returns the first one the domain is similar to, or null.
RECURSIVE SuspectedFrom(_, _)
SuspectedFrom(domain, k) ==
  IF k > Len(legitimateDomains) THEN Null
  ELSE IF isSimilar(domain, Text(legitimateDomains[k]))
       THEN legitimateDomains[k]
       ELSE SuspectedFrom(domain, k + 1)

findSuspectedTarget(domain) == SuspectedFrom(domain, 1)

\* The answers of checkVirusTotal: it throws, or tells whether an engine
\* flagged the domain.
VirusTotalAnswers == {"failed", "suspicious", "clean"}

\* TyposquattingStrategy.analyze
TyposquattingStrategy(url) ==
  LET urlObj == ParseURL(url)
      domain == replace(urlObj.hostname, Text("www."), << >>)
      suspectedTarget == findSuspectedTarget(domain)
      heuristic == [Blank EXCEPT !.isTyposquat = TRUE,
                                 !.suspectedTarget = suspectedTarget,
                                 !.risk = "medium"]
  IN  IF ~urlObj.ok
      THEN { [Blank EXCEPT !.error = InvalidURL, !.risk = "unknown"] }
      ELSE IF suspectedTarget = Null
      THEN { [Blank EXCEPT !.risk = "low"] }
      ELSE IF "virusTotal" \in config
      THEN { IF vtResult = "failed" THEN heuristic
             ELSE [Blank EXCEPT
                     !.isTyposquat = (vtResult = "suspicious"),
                     !.suspectedTarget = suspectedTarget,
                     !.risk = IF vtResult = "suspicious"
                              THEN "high" ELSE "medium"] :
               vtResult \in VirusTotalAnswers }
      ELSE { heuristic }

suspiciousKeywords ==
  << "verify", "account", "suspend", "confirm", "login", "signin",
     "banking", "secure", "update", "password", "credential", "validate",
     "restore", "limited", "urgent", "action-required" >>

suspiciousTLDs == << ".tk", ".ml", ".ga", ".cf", ".gq", ".xyz", ".top" >>

\* PhishingPatternStrategy.analyze: the suspicion score of a parsed URL.
suspicionScore(url, urlObj) ==
  LET fullURL == toLowerCase(Text(url))
      domain == urlObj.hostname
  IN  15 * Cardinality({k \in DOMAIN suspiciousKeywords :
                          includes(fullURL, Text(suspiciousKeywords[k]))})
      + ( IF \E k \in DOMAIN suspiciousTLDs :
               endsWith(domain, Text(suspiciousTLDs[k]))
          THEN 20 ELSE 0 )
      + ( IF HasIPv4(domain) THEN 25 ELSE 0 )
      + ( IF Labels(domain) - 2 > 2 THEN 10 ELSE 0 )
      + ( IF includes(urlObj.href, << "@" >>) THEN 30 ELSE 0 )
      + ( IF Count(domain, "-") > 3 THEN 10 ELSE 0 )

\* PhishingPatternStrategy.analyze
PhishingPatternStrategy(url) ==
  LET urlObj == ParseURL(url)
      score == suspicionScore(url, urlObj)
  IN  IF ~urlObj.ok
      THEN { [Blank EXCEPT !.error = InvalidURL, !.risk = "unknown"] }
      ELSE { [Blank EXCEPT
                !.isPhishing = (score >= 40),
                !.risk = IF score >= 40 THEN "high"
                         ELSE IF score >= 20 THEN "medium" ELSE "low"] }

\* strategy.analyze(url) of the strategy class that passes name to super().
StrategyAnalyze(name, url) ==
  CASE name = "safeBrowsing" -> SafeBrowsingStrategy(url)
    [] name = "urlExpansion" -> URLExpansionStrategy(url)
    [] name = "domainReputation" -> DomainReputationStrategy(url)
    [] name = "ssl" -> SSLValidationStrategy(url)
    [] name = "typosquatting" -> TyposquattingStrategy(url)
    [] name = "phishingPattern" -> PhishingPatternStrategy(url)

\* The URLs of the scenarios: the test URLs of the documentation, the
\* destination of the shortened one, and a text that is not a URL.
ScenarioURLs ==
  { "https://www.google.com", "not a url", "https://bit.ly/3xyz",
    "https://paypa1.com", "http://example.com" }

\* The i-th strategy of call c settles as its class does on the call's URL;
\* the strategies settle in the order they were started in.
Run(c) ==
  /\ calls[c].pc = "awaiting"
  /\ LET i == Len(calls[c].order) + 1
     IN  /\ i <= calls[c].n
         /\ \E outcome \in StrategyAnalyze(calls[c].names[i], calls[c].url) :
              Settle(c, i, Resolved(outcome))

\* The analyzer with one instance of each of the six strategy classes
\* registered, under any configuration of API keys.
InitScenario ==
  /\ strategies = StrategyNames
  /\ cache = << >>
  /\ now = 0
  /\ calls = [c \in Calls |-> Idle]
  /\ arg = << >>
  /\ ret = << >>
  /\ config \in SUBSET ApiKeys
  /\ ReportingInit
  /\ ScannerInit

\* One analysis of one of the scenario URLs, on an empty cache.
NextScenario ==
  \/ \E url \in ScenarioURLs : calls[1].pc = "idle" /\ Analyze_Start(1, url)
  \/ Run(1)
  \/ Analyze_Finish(1)

SpecScenario == InitScenario /\ [][NextScenario]_vars

(* ------------------------ the reporting service ------------------------ *)

\* The state of the analyzer, which the reporting service leaves alone.
analyzer == << strategies, cache, now, calls, arg, ret, config >>

\* The functions that subscribe.
Observers == {"o1", "o2"}

\* The arguments reportURL is called with; category and description have
\* the defaults 'phishing' and ''.
ReportArgs ==
  { [url |-> "http://example.com", category |-> "phishing",
     description |-> ""],
    [url |-> "https://paypa1.com", category |-> "malware",
     description |-> "fake login page"] }

\* What Math.random().toString(36).substr(2, 9) may give.
RandomParts == {"k3x9q2m1z", "0b7d5f8aa"}

\* `report_${Date.now()}_${Math.random()...}`
generateReportId(random) == [time |-> now, random |-> random]

\* The reportId of a value that carries none.
NoId == [time |-> 0 - 1, random |-> Undef]

\* The report of an event that carries none.
NoReportData ==
  [ url |-> Undef, category |-> Undef, description |-> Undef,
    timestamp |-> 0 - 1, reportId |-> NoId, status |-> Undef,
    submissions |-> << >> ]

\* The promise an async function returns: fulfilled with the value it
\* returns, rejected with what it throws.
Returns(v) == [state |-> "fulfilled", data |-> v]
Throws(e) == [state |-> "rejected", data |-> e]

\* What a sub-action throws when it fails unexpectedly.
Unexpected == [message |-> "unexpected failure", reportId |-> NoId]

\* logToInternal(report)
logToInternal(report, fails) ==
  IF fails THEN Throws(Unexpected)
  ELSE Returns([message |-> "Logged locally for tracking",
                reportId |-> report.reportId])

\* prepareManualSubmissions(url)
prepareManualSubmissions(url, fails) ==
  IF fails THEN Throws(Unexpected)
  ELSE Returns([message |-> "Manual submission info prepared",
                reportId |-> NoId])

services == << "Internal Log", "Manual Submission Info" >>

\* submissions.map(...): result.value || result.reason is the one of the
\* two the settled promise carries.
Submissions(settled) ==
  [ index \in 1..Len(settled) |->
      [ service |-> services[index],
        status |-> IF settled[index].state = "fulfilled"
                   THEN "success" ELSE "failed",
        data |-> settled[index].data ] ]

\* What an observer function does when it is called: it returns, it
\* throws, or it calls unsubscribe(whom) and returns.
Quiet == [does |-> "returns", whom |-> Undef]
Thrower == [does |-> "throws", whom |-> Undef]
Unsubscriber(o) == [does |-> "unsubscribes", whom |-> o]

Reactions == {Quiet, Thrower} \cup {Unsubscriber(o) : o \in Observers}

\* Observers that only return.
AllQuiet == [o \in Observers |-> Quiet]

\* The call of an observer with data: the status, the reportURL call
\* whose report object data.report is (0 for none), the report as the
\* observer reads it, whether getReportHistory() has it at that moment, and
\* whether this.observers has the observer at that moment.
Call(observer, status, r, report, history, subscribed) ==
  [ observer |-> observer, status |-> status, call |-> r,
    report |-> report,
    inHistory |-> \E i \in 1..Len(history) : history[i] = report,
    subscribed |-> subscribed ]

\* this.observers.filter(obs => obs !== observer)
Remaining(obs, o) == SelectSeq(obs, LAMBDA x : x # o)

\* this.observers.forEach(...) from the i-th element of the array on, which
\* is the array this.observers was when notify began: every element is
\* called, what it throws is caught, and an unsubscribe it calls gives
\* this.observers a new array.  st is this.observers and the calls made.
RECURSIVE ForEach(_, _, _, _, _, _, _, _)
ForEach(array, i, st, react, status, r, report, history) ==
  IF i > Len(array) THEN st
  ELSE
    LET o == array[i]
        call == Call(o, status, r, report, history,
                     \E k \in 1..Len(st.observers) : st.observers[k] = o)
        after == IF react[o].does = "unsubscribes"
                 THEN Remaining(st.observers, react[o].whom)
                 ELSE st.observers
    IN  ForEach(array, i + 1,
                [observers |-> after, delivered |-> Append(st.delivered, call)],
                react, status, r, report, history)

\* notify(data) when the observers react as react says: this.observers and
\* the calls made, after it.
NotifyAll(react, status, r, report, history) ==
  ForEach(observers, 1, [observers |-> observers, delivered |-> delivered],
          react, status, r, report, history)

\* subscribe(observer)
Subscribe(o) ==
  /\ Len(observers) < MaxObservers
  /\ observers' = Append(observers, o)
  /\ UNCHANGED << analyzer, scanner, reportHistory, reports, delivered >>

\* unsubscribe(observer)
Unsubscribe(o) ==
  /\ observers' = Remaining(observers, o)
  /\ UNCHANGED << analyzer, scanner, reportHistory, reports, delivered >>

\* HistoryPush replacing the history by the new report.
HistoryPush_Replace(history, report) == << report >>

\* this.reportHistory.push(report)
HistoryPush(history, report) == Append(history, report)

\* reportURL(url, category, description), lines 53-66: the report is
\* created and announced and the two sub-actions are called; each returns
\* a promise that is settled already.
ReportURL_Begin(r, a, random, fails1, fails2, react) ==
  /\ reports[r].pc = "idle"
  /\ LET report ==
           [ url |-> a.url, category |-> a.category,
             description |-> a.description, timestamp |-> now,
             reportId |-> generateReportId(random), status |-> "pending",
             submissions |-> << >> ]
         st == NotifyAll(react, "submitting", r, report, reportHistory)
     IN  /\ delivered' = st.delivered
         /\ observers' = st.observers
         /\ reports' = [reports EXCEPT ![r] =
              [ pc |-> "awaiting", args |-> a, report |-> report,
                subs |-> << logToInternal(report, fails1),
                            prepareManualSubmissions(a.url, fails2) >>,
                outcome |-> Undef ]]
  /\ UNCHANGED << analyzer, scanner, reportHistory >>

\* reportURL, lines 68-83, after Promise.allSettled, which is never
\* rejected: the submissions, the status, the history and the second event.
\* (Nothing in the try block throws, so the catch block is never entered.)
ReportURL_End(r, react) ==
  /\ reports[r].pc = "awaiting"
  /\ LET report ==
           [reports[r].report EXCEPT
              !.submissions = Submissions(reports[r].subs),
              !.status = "completed"]
         st == NotifyAll(react, "completed", r, report,
                         HistoryPush(reportHistory, report))
     IN  /\ reportHistory' = HistoryPush(reportHistory, report)
         /\ delivered' = st.delivered
         /\ observers' = st.observers
         /\ reports' = [reports EXCEPT ![r].pc = "returned",
                                       ![r].report = report,
                                       ![r].outcome = "fulfilled"]
  /\ UNCHANGED << analyzer, scanner >>

\* The history_cleared events delivered so far.
Cleared ==
  Cardinality({i \in 1..Len(delivered) :
                 delivered[i].status = "history_cleared"})

\* clearHistory()
ClearHistory_With(react) ==
  /\ Cleared + Len(observers) <= MaxCleared
  /\ reportHistory' = << >>
  /\ LET st == NotifyAll(react, "history_cleared", 0, NoReportData, << >>)
     IN  /\ delivered' = st.delivered
         /\ observers' = st.observers
  /\ UNCHANGED << analyzer, scanner, reports >>

\* reportURL and clearHistory with observers that only return.
ReportURL_Start(r, a, random, fails1, fails2) ==
  ReportURL_Begin(r, a, random, fails1, fails2, AllQuiet)
ReportURL_Finish(r) == ReportURL_End(r, AllQuiet)
ClearHistory == ClearHistory_With(AllQuiet)

\* The reporting service on its own: the analyzer is as constructed.
InitReport == Init

\* One caller calls reportURL once; observers come and go and the history
\* is cleared at any moment.
NextReport ==
  \/ \E o \in Observers : Subscribe(o)
  \/ \E o \in Observers : Unsubscribe(o)
  \/ \E a \in ReportArgs, random \in RandomParts,
        fails1 \in BOOLEAN, fails2 \in BOOLEAN :
       ReportURL_Start(1, a, random, fails1, fails2)
  \/ ReportURL_Finish(1)
  \/ ClearHistory

SpecReport == InitReport /\ [][NextReport]_vars

\* One caller calls reportURL once, its sub-actions succeeding, and the
\* history is cleared at any moment, with observers that return, throw or
\* unsubscribe an observer when they are called.
NextReentrant ==
  \/ \E o \in Observers : Subscribe(o)
  \/ \E o \in Observers : Unsubscribe(o)
  \/ \E a \in ReportArgs, random \in RandomParts,
        react \in [Observers -> Reactions] :
       ReportURL_Begin(1, a, random, FALSE, FALSE, react)
  \/ \E react \in [Observers -> Reactions] : ReportURL_End(1, react)
  \/ \E react \in [Observers -> Reactions] : ClearHistory_With(react)

SpecReentrant == InitReport /\ [][NextReentrant]_vars

\* Every caller calls reportURL once, the calls overlapping in any way as
\* time passes; nobody has subscribed and the history is never cleared.
NextConcurrent ==
  \/ \E r \in Reporters, a \in ReportArgs, random \in RandomParts,
        fails1 \in BOOLEAN, fails2 \in BOOLEAN :
       ReportURL_Start(r, a, random, fails1, fails2)
  \/ \E r \in Reporters : ReportURL_Finish(r)
  \/ Tick

SpecConcurrent == InitReport /\ [][NextConcurrent]_vars

(* ------------------------------ the export ----------------------------- *)

\* The arguments of the reportURL calls whose reports are exported: a URL
\* and a description may hold any character, a comma among them.
ExportArgs ==
  ReportArgs \cup
  { [url |-> "http://example.com/a,b", category |-> "phishing",
     description |-> "seen in a mail, twice"] }

Digits == << "0", "1", "2", "3", "4", "5", "6", "7", "8", "9" >>

\* String(n) for a natural number n.
RECURSIVE NumberText(_)
NumberText(n) ==
  IF n < 10 THEN << Digits[n + 1] >>
  ELSE NumberText(n \div 10) \o << Digits[(n % 10) + 1] >>

\* n written with two digits.
TwoDigits(n) == << Digits[(n \div 10) + 1], Digits[(n % 10) + 1] >>

\* The milliseconds in a unit of the clock (30 minutes).
MsPerTick == 1800000

\* new Date().toISOString() at time t of the clock, which starts at the
\* epoch.
toISOString(t) ==
  Text("1970-01-01T") \o TwoDigits(t \div 2) \o << ":" >>
    \o TwoDigits(30 * (t % 2)) \o Text(":00.000Z")

\* The string generateReportId returns.
ReportIdText(id) ==
  Text("report_") \o NumberText(id.time * MsPerTick) \o << "_" >>
    \o Text(id.random)

\* s.replace(/,/g, ';')
EscapeCommas(s) ==
  [i \in 1..Len(s) |-> IF s[i] = "," THEN ";" ELSE s[i]]

\* parts.join(sep)
RECURSIVE join(_, _)
join(parts, sep) ==
  IF Len(parts) = 0 THEN << >>
  ELSE IF Len(parts) = 1 THEN parts[1]
  ELSE parts[1] \o sep \o join(Tail(parts), sep)

headers ==
  << "Report ID", "URL", "Category", "Timestamp", "Status", "Description" >>

\* The row convertToCSV makes of a report.
Row(report) ==
  << ReportIdText(report.reportId),
     Text(report.url),
     Text(report.category),
     toISOString(report.timestamp),
     Text(report.status),
     EscapeCommas(Text(report.description)) >>

\* convertToCSV(reports), the parameter written history.
convertToCSV(history) ==
  IF Len(history) = 0 THEN << >>
  ELSE join( << join([k \in 1..Len(headers) |-> Text(headers[k])],
                     << "," >>) >>
             \o [i \in 1..Len(history) |-> join(Row(history[i]), << "," >>)],
             << "\n" >> )

\* exportReports('csv'): the history that is converted and the string
\* returned.
ExportCSV ==
  /\ arg' = << reportHistory >>
  /\ ret' = << convertToCSV(reportHistory) >>
  /\ UNCHANGED << strategies, cache, now, calls, config, reporting, scanner >>

\* Reports are filed as time passes and the history is exported at any
\* moment.
NextExport ==
  \/ \E r \in Reporters, a \in ExportArgs, random \in RandomParts,
        fails1 \in BOOLEAN :
       ReportURL_Start(r, a, random, fails1, FALSE)
  \/ \E r \in Reporters : ReportURL_Finish(r)
  \/ Tick
  \/ ExportCSV

SpecExport == InitReport /\ [][NextExport]_vars

(* ----------------------- the checks of urlChecker ---------------------- *)

\* checkForTyposquatting: popularDomains
popularDomains ==
  << "google.com", "facebook.com", "amazon.com", "apple.com", "netflix.com",
     "microsoft.com", "gmail.com", "yahoo.com", "instagram.com",
     "twitter.com", "paypal.com", "linkedin.com", "ebay.com", "youtube.com",
     "reddit.com", "spotify.com", "github.com", "dropbox.com", "slack.com",
     "zoom.us" >>

\* s.replace(/\.[^.]+$/, ''): the last dot and what follows it are removed
\* when something follows it.
RemoveTld(s) ==
  LET dots == Positions(s, ".")
      last == CHOOSE i \in dots : \A j \in dots : j <= i
  IN  IF dots = {} \/ last = Len(s) THEN s ELSE SubSeq(s, 1, last - 1)

\* .replace(/0/g, 'o').replace(/1/g, 'l').replace(/5/g, 's').replace(/8/g, 'b')
Normalize(s) ==
  [i \in 1..Len(s) |->
     CASE s[i] = "0" -> "o"
       [] s[i] = "1" -> "l"
       [] s[i] = "5" -> "s"
       [] s[i] = "8" -> "b"
       [] OTHER -> s[i]]

\* The array costs after the pass of the outer loop for the i-th character
\* ch of the longer string, from the array prev before it: cell j is the
\* least of 1 + prev[j], 1 + the new cell j - 1, and the old cell j - 1
\* (plus one when the characters differ).
NextCosts(shorterStr, ch, prev, i) ==
  LET n == Len(shorterStr)
      base == SubSeq([k \in 1..(n + 1) |->
                IF k = 1 THEN i
                ELSE Min(1 + prev[k],
                         IF ch = shorterStr[k - 1]
                         THEN prev[k - 1] ELSE prev[k - 1] + 1)], 1, n + 1)
  IN  SubSeq([j \in 1..(n + 1) |->
                Least({base[k] + (j - k) : k \in 1..j})], 1, n + 1)

\* The passes of the outer loop from the i-th on; costs keeps its length.
RECURSIVE FillCosts(_, _, _, _)
FillCosts(longerStr, shorterStr, prev, i) ==
  IF i > Len(longerStr) THEN prev
  ELSE LET next == NextCosts(shorterStr, longerStr[i], prev, i)
       IN  IF Len(next) = Len(prev)
           THEN FillCosts(longerStr, shorterStr, next, i + 1)
           ELSE << >>

\* checkForTyposquatting: levenshtein(s1, s2), the similarity as the
\* fraction num / den (0 / 0 is NaN).
levenshtein(s1, s2) ==
  LET longerStr == IF Len(s1) > Len(s2) THEN s1 ELSE s2
      shorterStr == IF Len(s1) > Len(s2) THEN s2 ELSE s1
      first == SubSeq([j \in 1..(Len(shorterStr) + 1) |-> j - 1],
                      1, Len(shorterStr) + 1)
      costs == FillCosts(longerStr, shorterStr, first, 1)
      longest == Max(Len(longerStr), Len(shorterStr))
  IN  IF Len(longerStr) - Len(shorterStr) > 3
      THEN [num |-> 0, den |-> 1]
      ELSE [num |-> longest - costs[Len(shorterStr) + 1], den |-> longest]

\* Math.round(similarity * 100)
RoundPercent(similarity) ==
  (200 * similarity.num + similarity.den) \div (2 * similarity.den)

\* checkForTyposquatting: the loop over popularDomains from the k-th on,
\* left at the first domain one of the three tests finds.
RECURSIVE TyposquattingFrom(_, _)
TyposquattingFrom(domain, k) ==
  IF k > Len(popularDomains)
  THEN [suspicious |-> FALSE, similarTo |-> Null, score |-> 0]
  ELSE
    LET popularDomain == popularDomains[k]
        domainWithoutTld == toLowerCase(RemoveTld(domain))
        popularWithoutTld == toLowerCase(RemoveTld(Text(popularDomain)))
        similarity == levenshtein(domainWithoutTld, popularWithoutTld)
        normalizedDomain == Normalize(domainWithoutTld)
        other == domain # Text(popularDomain)
    IN  IF /\ 100 * similarity.num > 75 * similarity.den
           /\ similarity.num < similarity.den
        THEN [suspicious |-> TRUE, similarTo |-> popularDomain,
              score |-> RoundPercent(similarity)]
        ELSE IF includes(domainWithoutTld, popularWithoutTld) /\ other
        THEN [suspicious |-> TRUE, similarTo |-> popularDomain, score |-> 85]
        ELSE IF normalizedDomain = popularWithoutTld /\ other
        THEN [suspicious |-> TRUE, similarTo |-> popularDomain, score |-> 90]
        ELSE TyposquattingFrom(domain, k + 1)

\* checkForTyposquatting(domain)
checkForTyposquatting(domain) == TyposquattingFrom(domain, 1)

\* The URLs whose hosts are examined: brands, a subdomain of a brand, a
\* look-alike, and a shortener.
HostURLs ==
  { "https://www.google.com", "https://accounts.google.com",
    "https://www.microsoft.com", "https://www.reddit.com",
    "https://paypa1.com", "https://paypa1.com/login",
    "http://example.com", "https://bit.ly/3xyz" }

\* checkUrlSafety, lines 338-344: checkForTyposquatting on the host of a
\* URL that parses.
CheckHost(url) ==
  /\ ParseURL(url).ok
  /\ arg' = << url >>
  /\ ret' = << checkForTyposquatting(ParseURL(url).hostname) >>
  /\ UNCHANGED << strategies, cache, now, calls, config, reporting, scanner >>

\* Either one analysis of one of the URLs by the analyzer, or the
\* typosquatting check of urlChecker on any of them, one after another.
NextHosts ==
  \/ \E url \in HostURLs :
       calls[1].pc = "idle" /\ ret = << >> /\ Analyze_Start(1, url)
  \/ Run(1)
  \/ Analyze_Finish(1)
  \/ \E url \in HostURLs : calls[1].pc = "idle" /\ CheckHost(url)

SpecHosts == InitScenario /\ [][NextHosts]_vars

(* ------------------------- components/QRScanner.js --------------------- *)

\* The component renders again some time after its state was set (React
\* schedules it), and the camera delivers a scan event to the handler of
\* the last render.  A press is on a button of the last render.

\* What the QR codes scanned hold: two URLs and a text.
ScanData ==
  {"https://accounts.google.com", "http://example.com/a,b", "fake login page"}

\* The results checkUrlSafety is fulfilled with (it catches what it throws,
\* so it never rejects), and the results for a text.
UrlResults == "isUrl: true"
TextResults == "isUrl: false"

\* The return of the component function, lines 124-189.
Render(s) ==
  IF s.safetyResults # Null
  THEN View(TRUE, FALSE, FALSE)
  ELSE View(FALSE, ~s.scanned, s.scanned /\ ~s.isChecking)

\* React renders the component with its present state.
Rerender ==
  /\ scanner.rendered # Render(scanner)
  /\ scanner' = [scanner EXCEPT !.rendered = Render(scanner)]
  /\ UNCHANGED << analyzer, reporting >>

\* if (isProcessingRef.current) return;
Accepts(s) == ~s.isProcessingRef

\* handleBarCodeScanned({ type, data }) until its await or its return.
handleBarCodeScanned(data) ==
  /\ scanner.rendered.onBarcodeScanned
  /\ Len(scanner.checking) < MaxInFlight
  /\ IF ~Accepts(scanner)
     THEN UNCHANGED scanner
     ELSE IF \/ startsWith(Text(data), Text("http://"))
             \/ startsWith(Text(data), Text("https://"))
          THEN scanner' = [scanner EXCEPT
                 !.isProcessingRef = TRUE, !.scanned = TRUE,
                 !.scannedData = data, !.isChecking = TRUE,
                 !.checking = Append(@, data)]
          ELSE scanner' = [scanner EXCEPT
                 !.scanned = TRUE, !.scannedData = data,
                 !.safetyResults = TextResults,
                 !.isProcessingRef = FALSE]
  /\ UNCHANGED << analyzer, reporting >>

\* handleBarCodeScanned after its await: the i-th checkUrlSafety call in
\* flight is fulfilled, and the finally block runs.
CheckSettles(i) ==
  /\ i \in 1..Len(scanner.checking)
  /\ scanner' = [scanner EXCEPT
       !.checking = SubSeq(@, 1, i - 1) \o SubSeq(@, i + 1, Len(@)),
       !.safetyResults = UrlResults,
       !.isChecking = FALSE,
       !.isProcessingRef = FALSE]
  /\ UNCHANGED << analyzer, reporting >>

\* resetScanner(), called by a press of Scan Again in SafetyResults or
\* under the camera.
resetScanner ==
  /\ scanner.rendered.results \/ scanner.rendered.scanAgain
  /\ scanner.timers < MaxTimers
  /\ scanner' = [scanner EXCEPT
       !.scanned = FALSE, !.scannedData = Null, !.safetyResults = Null,
       !.isChecking = FALSE, !.timers = @ + 1]
  /\ UNCHANGED << analyzer, reporting >>

\* The callback of resetScanner's setTimeout runs.
TimerFires ==
  /\ scanner.timers > 0
  /\ scanner' = [scanner EXCEPT !.isProcessingRef = FALSE, !.timers = @ - 1]
  /\ UNCHANGED << analyzer, reporting >>

NextScanner ==
  \/ \E data \in ScanData : handleBarCodeScanned(data)
  \/ \E i \in 1..MaxInFlight : CheckSettles(i)
  \/ Rerender
  \/ resetScanner
  \/ TimerFires

SpecScanner == Init /\ [][NextScanner]_vars

(* ============================== claims ================================= *)

\* A call that has returned a report it computed itself (a cache miss).
ReturnedMiss(c) == calls[c].pc = "returned" /\ calls[c].lookup # "live"

\* The promise p carries no risk information: it was rejected, or its
\* outcome carries an error, or it is risk 'unknown' with isSafe null.
NoInformation(p) ==
  \/ p.state = "rejected"
  \/ /\ p.state = "fulfilled"
     /\ \/ Truthy(p.value.error)
        \/ p.value.risk = "unknown" /\ p.value.isSafe = Null

\* C1: on a cache miss, when every registered strategy's outcome is failed
\* or carries no risk information, the report's overallSafety is not 'safe'.
\* The code scores such a report 0 and determineOverallSafety(0) is 'safe'.
C1_NeverSafeWithoutInformation ==
  \A c \in Calls :
    ( /\ ReturnedMiss(c)
      /\ calls[c].n >= 1
      /\ \A i \in 1..calls[c].n : NoInformation(calls[c].promises[i]) )
    => calls[c].result.overallSafety # "safe"

\* C2: the riskScore of the report computed from any checks map is an
\* integer between 0 and 100.
C2_RiskScoreInRange ==
  Len(ret) = 1 => ret[1].riskScore \in 0..100

\* C2 witness: a scored map whose weights add up to more than 100 (every
\* one of NumChecks checks high).
C2_Witness ==
  /\ Len(ret) = 1
  /\ Cardinality(DOMAIN arg) = NumChecks
  /\ \A k \in DOMAIN arg : arg[k] = OkHigh
  /\ ret[1].riskScore = 100

Severity(band) ==
  CASE band = "safe" -> 0
    [] band = "caution" -> 1
    [] band = "suspicious" -> 2
    [] band = "dangerous" -> 3

\* The band the fixed thresholds give a score.
BandByThreshold(score, band) ==
  /\ band \in {"safe", "caution", "suspicious", "dangerous"}
  /\ band = "dangerous" <=> score >= 50
  /\ band = "suspicious" <=> score >= 25 /\ score < 50
  /\ band = "caution" <=> score >= 10 /\ score < 25
  /\ band = "safe" <=> score < 10

\* C3: determineOverallSafety gives every score in 0..100 the one band of
\* the thresholds 50, 25 and 10, and of two scores the higher one never
\* gets the less severe band.
C3_BandsMonotone ==
  Len(ret) = 2 =>
    /\ BandByThreshold(arg[1], ret[1])
    /\ BandByThreshold(arg[2], ret[2])
    /\ arg[1] < arg[2] => Severity(ret[1]) <= Severity(ret[2])

\* C3 witness: two scores on either side of the threshold 25.
C3_Witness ==
  /\ Len(ret) = 2
  /\ arg = << 24, 25 >>
  /\ ret = << "caution", "suspicious" >>

\* The weight the claim gives an outcome: failed 0, high risk 30, medium
\* risk or a suspicious flag 15, low risk together with warnings 5, and
\* nothing otherwise.
ClaimedWeight(check) ==
  IF Truthy(check.error) THEN 0
  ELSE IF check.risk = "high" \/ check.isSafe = "false" THEN 30
  ELSE IF check.risk = "medium" \/ check.suspicious THEN 15
  ELSE IF check.risk = "low" /\ check.warnings THEN 5
  ELSE 0

\* C4: the score is min(100, S), S the sum of the claimed weights of the
\* checks.  The code adds 5 for every low-risk outcome, with or without
\* warnings.
C4_ScoreIsSumOfClaimedWeights ==
  Len(ret) = 1 =>
    ret[1].riskScore =
      Min(100, SumOver([k \in DOMAIN arg |-> ClaimedWeight(arg[k])],
                       DOMAIN arg))

\* The strategy's analyze promise p was fulfilled with a value.
Fulfilled(p) == p.state = "fulfilled"

\* C5: on a cache miss analyze starts every registered strategy, aggregates
\* and returns only in a state where every one of them has settled, and
\* once they all have settled it does return.
C5_ReturnsAfterAllSettled ==
  /\ [][\A c \in Calls :
          /\ ( calls[c].pc # "awaiting" /\ calls'[c].pc = "awaiting" )
             => /\ calls'[c].names = strategies
                /\ DOMAIN calls'[c].promises = 1..Len(strategies)
                /\ \A i \in 1..Len(strategies) :
                     calls'[c].promises[i].state = "pending"
          /\ ( calls[c].pc = "awaiting" /\ calls'[c].pc = "returned" )
             => \A i \in 1..calls[c].n :
                  calls[c].promises[i].state # "pending"
       ]_vars
  /\ ( ( /\ calls[1].pc = "awaiting"
         /\ \A i \in 1..calls[1].n : calls[1].promises[i].state # "pending" )
       ~> calls[1].pc = "returned" )

\* C5 witness: a report returned after two strategies, of which the first
\* to settle failed and the other succeeded later.
C5_Witness ==
  /\ ReturnedMiss(1)
  /\ calls[1].n = 2
  /\ Len(calls[1].order) = 2
  /\ calls[1].promises[calls[1].order[1]].state = "rejected"
  /\ calls[1].promises[calls[1].order[2]].state = "fulfilled"

\* C6: a rejected strategy leaves analyze returning a report in which that
\* strategy's entry carries the error message and every other entry is the
\* outcome its own strategy produced; with every promise settled, rejected
\* ones included, analyze can always return.  (Registry of Spec: one
\* instance of each strategy class.)
C6_FailureIsolated ==
  \A c \in Calls :
    /\ ReturnedMiss(c) =>
         \A i \in 1..calls[c].n :
           LET p == calls[c].promises[i]
               entry == calls[c].result.checks[calls[c].names[i]]
           IN  /\ p.state = "rejected" =>
                    /\ entry.error = p.reason
                    /\ Truthy(entry.error)
                    /\ CheckScore(entry) = 0
               /\ Fulfilled(p) => entry = p.value
    /\ ( /\ calls[c].pc = "awaiting"
         /\ \A i \in 1..calls[c].n : calls[c].promises[i].state # "pending" )
       => ENABLED Analyze_Finish(c)

\* C6 witness: a report with one strategy rejected and the other high.
C6_Witness ==
  /\ ReturnedMiss(1)
  /\ calls[1].n = 2
  /\ calls[1].promises[1] = Rejected("timeout")
  /\ calls[1].promises[2] = Resolved(OkHigh)
  /\ calls[1].result.riskScore = 30

\* The names of the strategies call c started.
NamesOf(c) == {calls[c].names[i] : i \in 1..calls[c].n}

\* The last strategy of call c registered under name nm.
LastNamed(c, nm) ==
  CHOOSE i \in 1..calls[c].n :
    /\ calls[c].names[i] = nm
    /\ \A j \in 1..calls[c].n : calls[c].names[j] = nm => j <= i

\* The entry the facade records for the settled promise p.
EntryOf(p) ==
  IF Fulfilled(p) THEN p.value ELSE [Blank EXCEPT !.error = p.reason]

\* C7 as claimed: the report of a cache miss has as many keys as strategies
\* were registered when the call started.
C7_OneKeyPerStrategy ==
  \A c \in Calls :
    ReturnedMiss(c) =>
      Cardinality(DOMAIN calls[c].result.checks) = Len(calls[c].names)

\* C7 amended: the report of a cache miss has exactly one key for every
\* name among the strategies registered when the call started, succeeded
\* or failed; a name's entry is the outcome of the last strategy registered
\* under it, so the keys are as many as the strategies when the names are
\* pairwise distinct.
C7_OneKeyPerName ==
  \A c \in Calls :
    ReturnedMiss(c) =>
      /\ calls[c].names = SubSeq(strategies, 1, calls[c].n)
      /\ DOMAIN calls[c].result.checks = NamesOf(c)
      /\ \A nm \in NamesOf(c) :
           LET e == calls[c].result.checks[nm]
               x == EntryOf(calls[c].promises[LastNamed(c, nm)])
           IN  e.error = x.error /\ e.risk = x.risk /\ e.isSafe = x.isSafe
      /\ ( \A i, j \in 1..calls[c].n :
             calls[c].names[i] = calls[c].names[j] => i = j )
         => Cardinality(DOMAIN calls[c].result.checks) = calls[c].n

\* C7 witness: two strategies of one name, the first high and the second
\* rejected, leave one key, the rejection.
C7_Witness ==
  /\ ReturnedMiss(1)
  /\ calls[1].names = << "safeBrowsing", "safeBrowsing" >>
  /\ calls[1].promises = << Resolved(OkHigh), Rejected("timeout") >>
  /\ DOMAIN calls[1].result.checks = {"safeBrowsing"}
  /\ calls[1].result.checks["safeBrowsing"].error = "timeout"

\* C8: two analyses whose strategies produced the same outcomes return the
\* same checks, score, band and recommendations whatever the orders their
\* strategies settled in, each outcome under its own strategy's name.
C8_OrderIndependent ==
  /\ \A c \in Calls :
       ReturnedMiss(c) =>
         \A i \in 1..calls[c].n :
           Fulfilled(calls[c].promises[i]) =>
             calls[c].result.checks[calls[c].names[i]]
               = calls[c].promises[i].value
  /\ \A c, d \in Calls :
       ( /\ ReturnedMiss(c) /\ ReturnedMiss(d)
         /\ calls[c].names = calls[d].names
         /\ calls[c].promises = calls[d].promises )
       => /\ calls[c].result.checks = calls[d].result.checks
          /\ calls[c].result.riskScore = calls[d].result.riskScore
          /\ calls[c].result.overallSafety = calls[d].result.overallSafety
          /\ calls[c].result.recommendations
               = calls[d].result.recommendations

\* C8 witness: two reports from the same outcomes, one rejected and one
\* high, settled in opposite orders.
C8_Witness ==
  /\ ReturnedMiss(1) /\ ReturnedMiss(2)
  /\ calls[1].promises = calls[2].promises
  /\ calls[1].promises[1].state # calls[1].promises[2].state
  /\ calls[1].order = << 1, 2 >>
  /\ calls[2].order = << 2, 1 >>

\* The entries of the cache m under key (at most one).
EntriesOf(m, key) == {i \in 1..Len(m) : m[i].key = key}

\* A step that enters analyze in call slot c: nothing else changes a slot
\* that is idle or has returned.
Enters(c) ==
  /\ calls[c].pc \in {"idle", "returned"}
  /\ calls'[c] # calls[c]

\* C9: analyze(url) finding an entry for url younger than TTL returns that
\* entry's report, starts no strategy and leaves the cache as it is.
C9_LiveHitFrame ==
  [][\A c \in Calls :
       Enters(c) =>
         \A i \in EntriesOf(cache, generateCacheKey(calls'[c].url)) :
           now - cache[i].value.timestamp < TTL =>
             /\ calls'[c].pc = "returned"
             /\ calls'[c].result = cache[i].value.data
             /\ calls'[c].n = 0
             /\ calls'[c].promises = << >>
             /\ cache' = cache
    ]_vars

\* C9 witness: a report returned from a cache of two entries, the second
\* of which is the one returned.
C9_Witness ==
  /\ calls[1].pc = "returned"
  /\ calls[1].lookup = "live"
  /\ Len(cache) = 2
  /\ cache[2].key = generateCacheKey(calls[1].url)
  /\ cache[2].value.data = calls[1].result
  /\ cache[2].value.timestamp < now

\* C10: a report is served from the cache only when its entry is younger
\* than TTL; a lookup that finds an entry of age TTL or more removes it and
\* starts every strategy again.
C10_NoStaleHit ==
  [][\A c \in Calls :
       Enters(c) =>
         LET key == generateCacheKey(calls'[c].url)
             found == EntriesOf(cache, key)
         IN  /\ calls'[c].lookup = "live" =>
                  \E i \in found : now - cache[i].value.timestamp < TTL
             /\ \A i \in found :
                  now - cache[i].value.timestamp >= TTL =>
                    /\ EntriesOf(cache', key) = {}
                    /\ calls'[c].lookup = "expired"
                    /\ calls'[c].pc = "awaiting"
                    /\ calls'[c].n = Len(strategies)
                    /\ \A j \in 1..calls'[c].n :
                         calls'[c].promises[j].state = "pending"
    ]_vars

\* C10 witness: an analysis that found its entry expired has run the
\* strategy again and stored the new report.
C10_Witness ==
  /\ calls[1].pc = "returned"
  /\ calls[1].lookup = "expired"
  /\ calls[1].n = 1
  /\ \E i \in EntriesOf(cache, generateCacheKey(calls[1].url)) :
       /\ cache[i].value.data = calls[1].result
       /\ cache[i].value.timestamp >= TTL

\* A step in which call c resumes from its await, writes its report to the
\* cache and returns.
Writes(c) == calls[c].pc = "awaiting" /\ calls'[c].pc = "returned"

\* The entries of the cache m, as a set.
Entries(m) == {m[i] : i \in 1..Len(m)}

\* C11: a write of a new key into a cache of MAX_SIZE entries evicts exactly
\* one entry, one that no other entry is older than (by the timestamp it
\* was stored with), and keeps every other entry.  The code deletes the
\* first key of the Map, and a key rewritten by an overlapping analysis of
\* the same URL keeps its place in the Map while its timestamp is renewed.
C11_EvictsOldestEntry ==
  [][\A c \in Calls :
       ( /\ Writes(c)
         /\ Len(cache) >= MAX_SIZE
         /\ EntriesOf(cache, generateCacheKey(calls[c].url)) = {} )
       => \E i \in 1..Len(cache) :
            /\ \A j \in 1..Len(cache) :
                 cache[i].value.timestamp <= cache[j].value.timestamp
            /\ EntriesOf(cache', cache[i].key) = {}
            /\ \A j \in 1..Len(cache) : j # i => cache[j] \in Entries(cache')
            /\ Len(cache') = Len(cache)
    ]_vars

\* The keys of the cache m.
Keys(m) == {m[i].key : i \in 1..Len(m)}

\* C12: whatever analyze calls, overlapping or not, and clearCache calls
\* have run, the cache holds at most MAX_SIZE entries, one per key, and
\* getCacheStats().size is their number.
C12_CacheBounded ==
  /\ Cardinality(Keys(cache)) <= MAX_SIZE
  /\ Len(cache) = Cardinality(Keys(cache))
  /\ getCacheStats.size = Cardinality(Keys(cache))
  /\ getCacheStats.maxSize = MAX_SIZE

\* C12 witness: both calls have written, the cache is full and the key of
\* the second call is no longer in it.
C12_Witness ==
  /\ ReturnedMiss(1) /\ ReturnedMiss(2)
  /\ getCacheStats.size = MAX_SIZE
  /\ generateCacheKey(calls[2].url) \notin Keys(cache)
  /\ generateCacheKey(calls[1].url) = cache[Len(cache)].key

\* The call slot that is not c.
Other(c) == CHOOSE d \in Calls : d # c

\* C13: an analyze call that misses the cache while another call for the
\* same URL is in flight starts every registered strategy itself and leaves
\* the other call's promises alone; every call that finishes writes its own
\* report under the URL's key, so the entry left after both is the report
\* of the call that wrote later.
C13_NoCoalescing ==
  [][\A c \in Calls :
       /\ ( /\ Enters(c)
            /\ calls[Other(c)].pc = "awaiting"
            /\ calls[Other(c)].url = calls'[c].url
            /\ EntriesOf(cache, generateCacheKey(calls'[c].url)) = {} )
          => /\ calls'[c].pc = "awaiting"
             /\ calls'[c].names = strategies
             /\ DOMAIN calls'[c].promises = 1..Len(strategies)
             /\ \A i \in 1..Len(strategies) :
                  calls'[c].promises[i].state = "pending"
             /\ calls'[Other(c)] = calls[Other(c)]
       /\ Writes(c)
          => LET found == EntriesOf(cache', generateCacheKey(calls[c].url))
             IN  /\ Cardinality(found) = 1
                 /\ \A i \in found : cache'[i].value.data = calls'[c].result
    ]_vars

\* C13 witness: two calls for one URL have both missed the cache (so they
\* overlapped), each with every strategy settled, with different reports;
\* the cache holds the report of the second call, which wrote later.
C13_Witness ==
  /\ ReturnedMiss(1) /\ ReturnedMiss(2)
  /\ calls[1].url = calls[2].url
  /\ calls[1].n = MaxStrategies /\ calls[2].n = MaxStrategies
  /\ calls[1].result # calls[2].result
  /\ Len(cache) = 1
  /\ cache[1].value.data = calls[2].result

\* C14: an analyze call on a text that is not a parseable URL starts no
\* strategy, and the report it returns is not 'safe'.
C14_MalformedFailsFast ==
  \A c \in Calls :
    ( /\ calls[c].pc # "idle"
      /\ ~ParseURL(calls[c].url).ok )
    => /\ calls[c].n = 0
       /\ calls[c].pc = "returned" => calls[c].result.overallSafety # "safe"

\* C15: the report on https://www.google.com with the six strategies
\* registered, no API key configured and the HEAD request answered with a
\* success status has no failed check, overallSafety 'safe' and a riskScore
\* below 10.
C15_GoogleIsSafe ==
  ( /\ ReturnedMiss(1)
    /\ calls[1].url = "https://www.google.com"
    /\ config = NoKeys
    /\ calls[1].result.checks["ssl"].validCert = "true" )
  => /\ \A name \in DOMAIN calls[1].result.checks :
          ~Truthy(calls[1].result.checks[name].error)
     /\ calls[1].result.overallSafety = "safe"
     /\ calls[1].result.riskScore < 10

\* C16: when the report's urlExpansion check found the URL shortened and
\* expanded it to another URL, the typosquatting check of the report is the
\* one of the expanded URL's host; for the shortened URL that leads to
\* paypa1.com it fires.
C16_ChecksOnExpandedHost ==
  \A c \in Calls :
    ( /\ ReturnedMiss(c)
      /\ calls[c].result.checks["urlExpansion"].isShortened = "true"
      /\ calls[c].result.checks["urlExpansion"].expanded # calls[c].url )
    => /\ calls[c].result.checks["typosquatting"]
            \in TyposquattingStrategy(
                  calls[c].result.checks["urlExpansion"].expanded)
       /\ calls[c].result.checks["typosquatting"].isTyposquat

\* The number of times o is in the list seq.
Times(seq, o) == Cardinality({i \in 1..Len(seq) : seq[i] = o})

\* The calls of observer o made in this step.
CalledNow(o) ==
  {i \in (Len(delivered) + 1)..Len(delivered') : delivered'[i].observer = o}

\* C17: subscribing an observer that is subscribed already changes nothing,
\* so no observer is ever in the list twice and an event reaches every
\* subscribed observer exactly once; an unsubscribe that removes an
\* observer leaves it not subscribed, whatever number of times it had
\* subscribed.  (An unsubscribe of an observer that is not subscribed is a
\* step that changes nothing.)
C17_SubscriptionIdempotent ==
  [][\A o \in Observers :
       /\ Times(observers', o) <= 1
       /\ Times(observers', o) < Times(observers, o)
          => Times(observers', o) = 0
       /\ Cardinality(CalledNow(o)) <= 1
       /\ ( Len(delivered') > Len(delivered) /\ Times(observers, o) > 0 )
          => Cardinality(CalledNow(o)) = 1
    ]_vars

\* The calls of observer o with an event of the given status about the
\* report of reportURL call r, among the calls log.
CallsAbout(log, o, status, r) ==
  {i \in 1..Len(log) :
     /\ log[i].observer = o
     /\ log[i].status = status
     /\ log[i].call = r}

\* C18: the report of a reportURL call is created 'pending' and every
\* subscribed observer is called once with 'submitting' for it; when the
\* call completes the report is appended to the history once, and every
\* subscribed observer is called once with 'completed' for it, the report
\* then being 'completed' and in the history; no observer gets the
\* 'completed' event of a report before its 'submitting' event, or either
\* of them twice.
C18_SubmittingThenCompleted ==
  [][\A r \in Reporters :
       /\ ( reports[r].pc = "idle" /\ reports'[r].pc = "awaiting" )
          => /\ reports'[r].report.status = "pending"
             /\ \A o \in Observers :
                  Times(observers, o) > 0
                  => Cardinality(CallsAbout(delivered', o, "submitting", r))
                       = 1
       /\ ( reports[r].pc = "awaiting" /\ reports'[r].pc = "returned" )
          => /\ reportHistory' = Append(reportHistory, reports'[r].report)
             /\ Times(reportHistory', reports'[r].report)
                  = 1 + Times(reportHistory, reports'[r].report)
             /\ \A o \in Observers :
                  /\ Times(observers, o) > 0
                     => Cardinality(CallsAbout(delivered', o, "completed", r))
                          = 1
                  /\ Cardinality(CallsAbout(delivered', o, "submitting", r))
                       <= 1
                  /\ \A j \in CallsAbout(delivered', o, "completed", r) :
                       /\ delivered'[j].report.status = "completed"
                       /\ delivered'[j].inHistory
                       /\ \A i \in CallsAbout(delivered', o, "submitting", r) :
                            i < j
    ]_vars

\* C19: a reportURL call one of whose sub-actions threw does not end with
\* the report 'completed': the report is 'error', no 'completed' event is
\* sent for it, and the call's promise is rejected.
C19_ErrorIsTerminal ==
  \A r \in Reporters :
    ( /\ reports[r].pc = "returned"
      /\ \E i \in 1..Len(reports[r].subs) :
           reports[r].subs[i].state = "rejected" )
    => /\ reports[r].report.status = "error"
       /\ reports[r].outcome = "rejected"
       /\ \A i \in 1..Len(delivered) :
            delivered[i].call = r => delivered[i].status # "completed"

\* Every caller's reportURL call has returned.
AllReturned == \A r \in Reporters : reports[r].pc = "returned"

\* The ways of giving every caller a place of its own in the history.
Places ==
  {f \in [Reporters -> 1..Len(reportHistory)] :
     \A r1 \in Reporters, r2 \in Reporters : r1 # r2 => f[r1] # f[r2]}

\* C20: once the overlapping reportURL calls have all completed, the
\* history holds one record per call and nothing else, and the record of a
\* call carries that call's url, category and description and the
\* submissions its own two sub-actions settled as.
C20_IndependentRecords ==
  AllReturned =>
    /\ Len(reportHistory) = Cardinality(Reporters)
    /\ \E f \in Places :
         \A r \in Reporters :
           LET record == reportHistory[f[r]]
           IN  /\ record = reports[r].report
               /\ record.url = reports[r].args.url
               /\ record.category = reports[r].args.category
               /\ record.description = reports[r].args.description
               /\ record.status = "completed"
               /\ Len(record.submissions) = 2
               /\ \A i \in 1..2 :
                    /\ record.submissions[i].service = services[i]
                    /\ record.submissions[i].status = "success"
                         <=> reports[r].subs[i].state = "fulfilled"
                    /\ record.submissions[i].data = reports[r].subs[i].data

\* C20 witness: the second call started after the first one and completed
\* before it (so the two overlapped), with other arguments and another
\* outcome of its sub-actions, and the history holds both records.
C20_Witness ==
  /\ AllReturned
  /\ reports[1].report.timestamp < reports[2].report.timestamp
  /\ Len(reportHistory) = 2
  /\ reportHistory[1] = reports[2].report
  /\ reportHistory[2] = reports[1].report
  /\ reports[1].args # reports[2].args
  /\ reports[1].report.submissions[1].status = "failed"
  /\ reports[2].report.submissions[1].status = "success"

\* s.split(ch)
RECURSIVE split(_, _)
split(s, ch) ==
  LET i == IndexOf(s, << ch >>)
  IN  IF i = 0 THEN << s >>
      ELSE << SubSeq(s, 1, i - 1) >> \o split(SubSeq(s, i + 1, Len(s)), ch)

\* C21: the CSV export of a history of n >= 1 records has one header line
\* and n rows, the i-th row beginning with the id and the url of the i-th
\* record, and every line has six comma-separated fields, whatever the
\* records' fields hold.
C21_CSVSixFields ==
  ( Len(ret) = 1 /\ Len(arg) = 1 /\ Len(arg[1]) >= 1 )
  => LET lines == split(ret[1], "\n")
     IN  /\ Len(lines) = Len(arg[1]) + 1
         /\ \A l \in 1..Len(lines) : Len(split(lines[l], ",")) = 6
         /\ \A i \in 1..Len(arg[1]) :
              LET fields == split(lines[i + 1], ",")
              IN  /\ fields[1] = ReportIdText(arg[1][i].reportId)
                  /\ fields[2] = Text(arg[1][i].url)

\* C22: the host accounts.google.com, whose root domain is google.com, is
\* not flagged: the typosquatting check of the analyzer's report has
\* isTyposquat false and no suspected target, and checkForTyposquatting
\* returns suspicious false and no similarTo.
C22_SubdomainNotFlagged ==
  /\ ( ReturnedMiss(1) /\ calls[1].url = "https://accounts.google.com" )
     => /\ ~calls[1].result.checks["typosquatting"].isTyposquat
        /\ calls[1].result.checks["typosquatting"].suspectedTarget
             # "google.com"
  /\ ( Len(ret) = 1 /\ arg = << "https://accounts.google.com" >> )
     => /\ ~ret[1].suspicious
        /\ ret[1].similarTo # "google.com"

\* The host is a shortener domain or a subdomain of one.
IsShortenerHost(hostname) ==
  \E k \in DOMAIN shorteners :
    \/ hostname = Text(shorteners[k])
    \/ endsWith(hostname, << "." >> \o Text(shorteners[k]))

\* C25: for a URL whose host is not a shortener domain the urlExpansion
\* check is the one made without a request: isShortened false, expanded
\* the URL itself, risk low, no error.
C25_NoRequestForOtherHosts ==
  \A c \in Calls :
    ( /\ ReturnedMiss(c)
      /\ ParseURL(calls[c].url).ok
      /\ ~IsShortenerHost(ParseURL(calls[c].url).hostname) )
    => /\ calls[c].result.checks["urlExpansion"].isShortened = "false"
       /\ calls[c].result.checks["urlExpansion"].expanded = calls[c].url
       /\ calls[c].result.checks["urlExpansion"].risk = "low"
       /\ ~Truthy(calls[c].result.checks["urlExpansion"].error)

\* The checks map without the check called name.
Without(checks, name) == [k \in DOMAIN checks \ {name} |-> checks[k]]

\* C23: an ssl check that found no valid certificate (the HEAD request
\* failed, or was answered with a status of 400 or more) has risk medium,
\* and the report's riskScore is 15 more than the other checks alone give
\* (up to the limit of 100).
C23_SSLFailureCounted ==
  \A c \in Calls :
    ( /\ ReturnedMiss(c)
      /\ calls[c].result.checks["ssl"].validCert = "false" )
    => /\ calls[c].result.checks["ssl"].risk = "medium"
       /\ calls[c].result.riskScore
            = Min(100, 15 + calculateRiskScore(
                              Without(calls[c].result.checks, "ssl")))

\* The risk the claim derives from an age in days.
ClaimedAgeRisk(days) ==
  IF days < 30 THEN "high" ELSE IF days < 365 THEN "medium" ELSE "low"

\* C24: with the WHOIS lookup configured, a domainReputation check that
\* carries the age the lookup gave has the risk derived from that age, and
\* one that carries none (the lookup failed) is the heuristic-only result,
\* without an error.
C24_AgeRiskOverlay ==
  \A c \in Calls :
    ( /\ ReturnedMiss(c)
      /\ "whois" \in config
      /\ ParseURL(calls[c].url).ok )
    => LET check == calls[c].result.checks["domainReputation"]
           host == ParseURL(calls[c].url).hostname
       IN  /\ check.ageInDays.tag = "number"
              => check.risk = ClaimedAgeRisk(check.ageInDays.days)
           /\ check.ageInDays.tag = Undef
              => check = [Blank EXCEPT
                            !.risk = performHeuristicChecks(host).risk]

\* C29: the report recommends 'Domain is very new (< 30 days)' only when
\* its domainReputation check carries a known age below 30 days; for a
\* check without a known age the risk derived from the age is not 'high'.
C29_VeryNewOnlyWithKnownAge ==
  \A c \in Calls :
    ( ReturnedMiss(c) /\ Has(calls[c].result.checks, "domainReputation") )
    => LET age == calls[c].result.checks["domainReputation"].ageInDays
       IN  /\ ( \E i \in 1..Len(calls[c].result.recommendations) :
                  calls[c].result.recommendations[i]
                    = "Domain is very new (< 30 days)" )
              => ( age.tag = "number" /\ age.days < 30 )
           /\ age.tag = Null => AgeRisk(age) # "high"

\* C26: a write for a key that the cache already holds replaces that key's
\* entry by the writer's report and leaves the set of cached keys as it
\* was, also when the cache is full.
C26_RewriteEvictsNothing ==
  [][\A c \in Calls :
       ( /\ Writes(c)
         /\ EntriesOf(cache, generateCacheKey(calls[c].url)) # {} )
       => /\ Keys(cache') = Keys(cache)
          /\ \A i \in EntriesOf(cache', generateCacheKey(calls[c].url)) :
               cache'[i].value.data = calls'[c].result
    ]_vars

\* C27: an analyze call that clearCache has overtaken does not store its
\* report: after its return the cache holds no entry for its URL other than
\* one written since the clear.
C27_NoWriteBackAfterClear ==
  [][\A c \in Calls :
       ( Writes(c) /\ calls[c].overtaken )
       => \A i \in EntriesOf(cache', generateCacheKey(calls[c].url)) :
            /\ i \in EntriesOf(cache, generateCacheKey(calls[c].url))
            /\ cache'[i] = cache[i]
    ]_vars

\* C28: an observer is called only while this.observers has it, so never
\* after an unsubscribe of it has returned, also when another observer
\* unsubscribes it in the middle of a notification; and reportURL is not
\* rejected whatever the observers throw.
C28_UnsubscribedNeverCalled ==
  [][ /\ \A i \in (Len(delivered) + 1)..Len(delivered') :
           delivered'[i].subscribed
      /\ reports'[1].outcome # "rejected" ]_vars

\* C30: at most one checkUrlSafety call of QRScanner is in flight at any
\* time, however scan events, renders, resetScanner calls and the timers of
\* resetScanner interleave.
C30_OneCheckInFlight == Len(scanner.checking) <= 1

====
